---- MODULE Spec2Model ----
(***************************************************************************)
(* Model of the stats aggregation engine (lib/parsers/stats-parser.ts),    *)
(* the session scan it consumes (lib/scanner/session-scanner.ts) and the   *)
(* request-id deduplicated token accumulation of the session detail        *)
(* parser.                                                                 *)
(*                                                                         *)
(* Timestamps are ISO strings in the code; here a timestamp is the number  *)
(* of milliseconds it denotes, and its date part (the text before 'T') is  *)
(* its day number, which orders exactly as the YYYY-MM-DD strings do.      *)
(* An absent value (null / undefined) of an object is the empty sequence   *)
(* and a present one a one-element sequence; an absent timestamp is        *)
(* NoTime.                                                                 *)
(***************************************************************************)
EXTENDS Integers, Sequences, FiniteSets, TLC

(* ------------------------------ bounds -------------------------------- *)

\* Days the clock runs through: 0 .. MaxDay.
MaxDay == 2

\* Days the clock runs through when the cache tiers are examined.
MaxCacheDay == 1

\* Session log files that may exist when the cache tiers are examined.
MaxCacheSessions == 1

\* Session log files that may exist under the projects root.
MaxSessions == 2

\* Cap on a session's summary message count (sessions grow when resumed).
MaxMessages == 3

\* Length of a log handed to the token accumulator.
MaxLines == 3

\* Session log files the scanner may find.
MaxFiles == 2

\* Writes (creations and modifications) of session log files.
MaxFileWrites == 3

\* Latest lastActiveAt a summary may carry.
MaxActiveAt == 2

\* Sessions handed to one invocation of batched detail parsing.
MaxBatchSessions == 12

\* getStats requests served concurrently.
MaxRequests == 2

\* Sessions after the cutoff when requests are served concurrently.
MaxRecentSessions == 6

\* Number of files and directories the source tree holds at most when the
\* scanner, the stats engine and session-detail lookup run side by side.
MaxSourceSize == 2

\* Longest parent session log, in events.
MaxParentEvents == 4

\* Longest parent session log while sub-agent logs are being written.
MaxSkillParentEvents == 2

\* Longest sub-agent log, in entries.
MaxAgentLines == 3

\* Number of sub-agent log files at most.
MaxAgentFiles == 1

\* Length of a run of plain assistant messages in a sub-agent log.
MaxFiller == 19

\* Scans that may be under way at once.
MaxScanners == 2

\* Session log files under the project directories while scans interleave.
MaxProjectFiles == 2

\* Instants at which those files are written.
MaxFsClock == 2

\* Sessions of all concurrent getStats calls together.
MaxServedSessions == 12

\* Session files of one call whose parse throws.
MaxParseFailures == 1

(* ------------------------- program constants -------------------------- *)

MERGE_STALENESS_MS == 60000

\* Milliseconds in a day and in an hour, as toISOString / getHours use them.
DayMs == 86400000

HourMs == 3600000

NoTime == 0 - 1

None == << >>

Some(x) == << x >>

Models == {"m", "n"}

(* ------------------------------ helpers ------------------------------- *)

EmptyMap == [x \in {} |-> 0]

Get(f, k, d) == IF k \in DOMAIN f THEN f[k] ELSE d

Put(f, k, v) == [x \in (DOMAIN f) \cup {k} |-> IF x = k THEN v ELSE f[x]]

RECURSIVE SumOver(_, _)
SumOver(f, keys) ==
  IF keys = {} THEN 0
  ELSE LET k == CHOOSE x \in keys : TRUE
       IN  f[k] + SumOver(f, keys \ {k})

\* Object.values(rec).reduce((sum, n) => sum + n, 0)
SumValues(f) == SumOver(f, DOMAIN f)

Min(S) == CHOOSE x \in S : \A y \in S : x <= y

\* new Date().toISOString().split('T')[0] and isoOrDate.split('T')[0]
ExtractDateString(t) == t \div DayMs

\* new Date(startedAt).getHours()
GetHours(t) == (t % DayMs) \div HourMs

ZeroUsage ==
  [inputTokens |-> 0, outputTokens |-> 0,
   cacheReadInputTokens |-> 0, cacheCreationInputTokens |-> 0]

AddUsage(a, b) ==
  [inputTokens |-> a.inputTokens + b.inputTokens,
   outputTokens |-> a.outputTokens + b.outputTokens,
   cacheReadInputTokens |-> a.cacheReadInputTokens + b.cacheReadInputTokens,
   cacheCreationInputTokens |->
     a.cacheCreationInputTokens + b.cacheCreationInputTokens]

(* ------------------- sessions, summaries and details ------------------ *)

\* A session is a SessionSummaryWithPath as the stats engine reads it,
\* together with what parseDetail yields for the same file: None when
\* parseDetail throws, Some([turns, toolFrequency, tokensByModel]) otherwise.

\* s.lastActiveAt ?? s.startedAt
LastActiveOrStarted(s) ==
  IF s.lastActiveAt # NoTime THEN s.lastActiveAt ELSE s.startedAt

\* One batch of parseDetailsInBatches: every parse of the batch settles,
\* a parse that throws yields null and is skipped when results are stored.
RECURSIVE StoreBatch(_, _)
StoreBatch(results, batch) ==
  IF batch = << >> THEN results
  ELSE LET s == Head(batch)
       IN  StoreBatch(IF s.detail # None
                        THEN Put(results, s.sessionId, s.detail[1])
                        ELSE results,
                      Tail(batch))

RECURSIVE ParseBatchesFrom(_, _, _, _)
ParseBatchesFrom(results, sessions, i, batchSize) ==
  IF i > Len(sessions) THEN results
  ELSE LET last == IF i + batchSize - 1 < Len(sessions)
                     THEN i + batchSize - 1 ELSE Len(sessions)
           batch == SubSeq(sessions, i, last)
       IN  ParseBatchesFrom(StoreBatch(results, batch), sessions,
                            i + batchSize, batchSize)

BatchSize == 10

\* parseDetailsInBatches(sessions): sessionId -> SessionDetail
ParseDetailsInBatches(sessions) ==
  ParseBatchesFrom(EmptyMap, sessions, 1, BatchSize)

(* --------------------------- aggregate fold --------------------------- *)

\* Variant of the default in which a date without entry starts with one
\* session counted.
ActivityOfOneSession ==
  [messageCount |-> 0, sessionCount |-> 1, toolCallCount |-> 0]

ZeroActivity == [messageCount |-> 0, sessionCount |-> 0, toolCallCount |-> 0]

\* Variant that adds all four token categories to the day's entry.
RECURSIVE AddDayTokensAllCategories(_, _, _)
AddDayTokensAllCategories(dayTokens, tokensByModel, models) ==
  IF models = {} THEN dayTokens
  ELSE LET model == CHOOSE x \in models : TRUE
           usage == tokensByModel[model]
           total == usage.inputTokens + usage.outputTokens
                      + usage.cacheReadInputTokens
                      + usage.cacheCreationInputTokens
       IN  AddDayTokensAllCategories(
             Put(dayTokens, model, Get(dayTokens, model, 0) + total),
             tokensByModel, models \ {model})

\* Variant in which the day's entry is left as it was (an enriched date
\* then has an empty tokensByModel).
AddNoDayTokens(dayTokens, tokensByModel, models) == dayTokens

\* for (const [model, usage] of Object.entries(detail.tokensByModel))
\*   dayTokens[model] = (dayTokens[model] ?? 0) + usage.inputTokens + usage.outputTokens
RECURSIVE AddDayTokens(_, _, _)
AddDayTokens(dayTokens, tokensByModel, models) ==
  IF models = {} THEN dayTokens
  ELSE LET model == CHOOSE x \in models : TRUE
           usage == tokensByModel[model]
           total == usage.inputTokens + usage.outputTokens
       IN  AddDayTokens(Put(dayTokens, model, Get(dayTokens, model, 0) + total),
                        tokensByModel, models \ {model})

\* for (const [model, usage] of Object.entries(detail.tokensByModel))
\*   modelUsage[model] = existing + usage, category by category
RECURSIVE AddModelUsage(_, _, _)
AddModelUsage(modelUsage, tokensByModel, models) ==
  IF models = {} THEN modelUsage
  ELSE LET model == CHOOSE x \in models : TRUE
           existing == Get(modelUsage, model, ZeroUsage)
       IN  AddModelUsage(Put(modelUsage, model,
                             AddUsage(existing, tokensByModel[model])),
                         tokensByModel, models \ {model})

\* updateHourCounts(hourCounts, session)
UpdateHourCounts(hourCounts, session) ==
  IF session.startedAt = NoTime THEN hourCounts
  ELSE LET hour == GetHours(session.startedAt)
       IN  Put(hourCounts, hour, Get(hourCounts, hour, 0) + 1)

\* Variant of the fallback in which a session without detail adds no message.
FallbackNothing(s) == 0

\* Variant of the longest-session test that also replaces on a tie.
IsLongerOrEqual(s, longestSession) == s.durationMs >= longestSession.duration

\* if (s.durationMs > longestSession.duration)
IsLonger(s, longestSession) == s.durationMs > longestSession.duration

\* cur.messageCount += s.messageCount; additionalMessages += s.messageCount
FallbackMessages(s) == s.messageCount

\* Body of the loop `for (const s of recentSessions)` of mergeRecentSessions.
MergeStep(acc, s, detailMap) ==
  LET date == ExtractDateString(LastActiveOrStarted(s))
      hasDetail == s.sessionId \in DOMAIN detailMap
      detail == detailMap[s.sessionId]
      cur == Get(acc.activityMap, date, ZeroActivity)
      msgs == IF hasDetail THEN Len(detail.turns) ELSE FallbackMessages(s)
      newCur ==
        [sessionCount |-> cur.sessionCount + 1,
         messageCount |-> cur.messageCount + msgs,
         toolCallCount |-> cur.toolCallCount +
           (IF hasDetail THEN SumValues(detail.toolFrequency) ELSE 0)]
      dayTokens == Get(acc.modelTokensMap, date, EmptyMap)
      newModelTokensMap ==
        IF hasDetail
          THEN Put(acc.modelTokensMap, date,
                   AddDayTokens(dayTokens, detail.tokensByModel,
                                DOMAIN detail.tokensByModel))
          ELSE IF date \in DOMAIN acc.modelTokensMap THEN acc.modelTokensMap
               ELSE Put(acc.modelTokensMap, date, EmptyMap)
      newModelUsage ==
        IF hasDetail
          THEN AddModelUsage(acc.modelUsage, detail.tokensByModel,
                             DOMAIN detail.tokensByModel)
          ELSE acc.modelUsage
      newLongest ==
        IF IsLonger(s, acc.longestSession)
          THEN [sessionId |-> s.sessionId,
                duration |-> s.durationMs,
                messageCount |-> msgs,
                timestamp |-> LastActiveOrStarted(s)]
          ELSE acc.longestSession
  IN  [activityMap |-> Put(acc.activityMap, date, newCur),
       modelTokensMap |-> newModelTokensMap,
       modelUsage |-> newModelUsage,
       hourCounts |-> UpdateHourCounts(acc.hourCounts, s),
       additionalMessages |-> acc.additionalMessages + msgs,
       longestSession |-> newLongest]

RECURSIVE MergeLoop(_, _, _)
MergeLoop(acc, recentSessions, detailMap) ==
  IF recentSessions = << >> THEN acc
  ELSE MergeLoop(MergeStep(acc, Head(recentSessions), detailMap),
                 Tail(recentSessions), detailMap)

\* Ascending order of the dates of a Map's entries:
\* Array.from(map.entries()).sort((a, b) => (a.date < b.date ? -1 : 1))
RECURSIVE SortDates(_)
SortDates(dates) ==
  IF dates = {} THEN << >>
  ELSE << Min(dates) >> \o SortDates(dates \ {Min(dates)})

RebuildDailyActivity(activityMap) ==
  LET ds == SortDates(DOMAIN activityMap)
  IN  [i \in 1..Len(ds) |->
         [date |-> ds[i],
          messageCount |-> activityMap[ds[i]].messageCount,
          sessionCount |-> activityMap[ds[i]].sessionCount,
          toolCallCount |-> activityMap[ds[i]].toolCallCount]]

RebuildDailyModelTokens(modelTokensMap) ==
  LET ds == SortDates(DOMAIN modelTokensMap)
  IN  [i \in 1..Len(ds) |->
         [date |-> ds[i], tokensByModel |-> modelTokensMap[ds[i]]]]

\* activityMap.set(entry.date, {...}) for each entry of stats.dailyActivity
RECURSIVE ActivityMapOf(_, _)
ActivityMapOf(map, dailyActivity) ==
  IF dailyActivity = << >> THEN map
  ELSE LET entry == Head(dailyActivity)
       IN  ActivityMapOf(Put(map, entry.date,
                             [messageCount |-> entry.messageCount,
                              sessionCount |-> entry.sessionCount,
                              toolCallCount |-> entry.toolCallCount]),
                         Tail(dailyActivity))

\* modelTokensMap.set(entry.date, {...entry.tokensByModel})
RECURSIVE ModelTokensMapOf(_, _)
ModelTokensMapOf(map, dailyModelTokens) ==
  IF dailyModelTokens = << >> THEN map
  ELSE LET entry == Head(dailyModelTokens)
       IN  ModelTokensMapOf(Put(map, entry.date, entry.tokensByModel),
                            Tail(dailyModelTokens))

\* Variant of the filter that also keeps sessions of the cutoff date.
IsRecentInclusive(s, cutoffDate) ==
  ExtractDateString(LastActiveOrStarted(s)) >= cutoffDate

\* summaries.filter(s => extractDateString(s.lastActiveAt ?? s.startedAt) > cutoffDate)
IsRecent(s, cutoffDate) ==
  ExtractDateString(LastActiveOrStarted(s)) > cutoffDate

RecentSessions(stats, summaries) ==
  LET cutoffDate == ExtractDateString(stats.lastComputedDate)
  IN  SelectSeq(summaries, LAMBDA s : IsRecent(s, cutoffDate))

\* Variant that counts only the sessions whose detail parse succeeded.
AdditionalSessionsParsed(recentSessions) ==
  Len(SelectSeq(recentSessions, LAMBDA s : s.detail # None))

\* Variant that adds no session to the total.
AdditionalSessionsNone(recentSessions) == 0

\* const additionalSessions = recentSessions.length
AdditionalSessions(recentSessions) == Len(recentSessions)

\* mergeRecentSessions(stats), given what scanAllSessionsWithPaths returned.
MergeRecentSessions(stats, summaries) ==
  LET recentSessions == RecentSessions(stats, summaries)
      detailMap == ParseDetailsInBatches(recentSessions)
      acc0 == [activityMap |-> ActivityMapOf(EmptyMap, stats.dailyActivity),
               modelTokensMap |->
                 ModelTokensMapOf(EmptyMap, stats.dailyModelTokens),
               modelUsage |-> stats.modelUsage,
               hourCounts |-> stats.hourCounts,
               additionalMessages |-> 0,
               longestSession |-> stats.longestSession]
      acc == MergeLoop(acc0, recentSessions, detailMap)
  IN  IF Len(recentSessions) = 0 THEN stats
      ELSE [stats EXCEPT
              !.dailyActivity = RebuildDailyActivity(acc.activityMap),
              !.dailyModelTokens = RebuildDailyModelTokens(acc.modelTokensMap),
              !.modelUsage = acc.modelUsage,
              !.totalSessions =
                stats.totalSessions + AdditionalSessions(recentSessions),
              !.totalMessages = stats.totalMessages + acc.additionalMessages,
              !.longestSession = acc.longestSession,
              !.hourCounts = acc.hourCounts]

\* Body of the loop `for (const s of summaries)` of computeStatsFromSessions.
ComputeStep(acc, s, detailMap) ==
  LET d == ExtractDateString(LastActiveOrStarted(s))
      hasDetail == s.sessionId \in DOMAIN detailMap
      detail == detailMap[s.sessionId]
      cur == Get(acc.activityMap, d, ZeroActivity)
      msgCount == IF hasDetail THEN Len(detail.turns) ELSE s.messageCount
      newCur ==
        [sessionCount |-> cur.sessionCount + 1,
         messageCount |-> cur.messageCount + msgCount,
         toolCallCount |-> cur.toolCallCount +
           (IF hasDetail THEN SumValues(detail.toolFrequency) ELSE 0)]
      dayTokens == Get(acc.modelTokensMap, d, EmptyMap)
      newModelTokensMap ==
        IF hasDetail
          THEN Put(acc.modelTokensMap, d,
                   AddDayTokens(dayTokens, detail.tokensByModel,
                                DOMAIN detail.tokensByModel))
          ELSE IF d \in DOMAIN acc.modelTokensMap THEN acc.modelTokensMap
               ELSE Put(acc.modelTokensMap, d, EmptyMap)
      newModelUsage ==
        IF hasDetail
          THEN AddModelUsage(acc.modelUsage, detail.tokensByModel,
                             DOMAIN detail.tokensByModel)
          ELSE acc.modelUsage
      newLongest ==
        IF s.durationMs > acc.longestSession.duration
          THEN [sessionId |-> s.sessionId,
                duration |-> s.durationMs,
                messageCount |-> msgCount,
                timestamp |-> LastActiveOrStarted(s)]
          ELSE acc.longestSession
      newFirst ==
        IF acc.firstSessionDate = NoTime \/ s.startedAt < acc.firstSessionDate
          THEN s.startedAt
          ELSE acc.firstSessionDate
  IN  [activityMap |-> Put(acc.activityMap, d, newCur),
       modelTokensMap |-> newModelTokensMap,
       modelUsage |-> newModelUsage,
       hourCounts |-> UpdateHourCounts(acc.hourCounts, s),
       totalMessages |-> acc.totalMessages + msgCount,
       longestSession |-> newLongest,
       firstSessionDate |-> newFirst]

RECURSIVE ComputeLoop(_, _, _)
ComputeLoop(acc, summaries, detailMap) ==
  IF summaries = << >> THEN acc
  ELSE ComputeLoop(ComputeStep(acc, Head(summaries), detailMap),
                   Tail(summaries), detailMap)

\* The aggregate computeStatsFromSessions builds from the scanned summaries
\* at clock value `clock` (the value inside its try block).
ComputeFromSummaries(summaries, clock) ==
  LET detailMap == ParseDetailsInBatches(summaries)
      acc0 == [activityMap |-> EmptyMap,
               modelTokensMap |-> EmptyMap,
               modelUsage |-> EmptyMap,
               hourCounts |-> EmptyMap,
               totalMessages |-> 0,
               longestSession |->
                 [sessionId |-> 0, duration |-> 0, messageCount |-> 0,
                  timestamp |-> NoTime],
               firstSessionDate |-> NoTime]
      acc == ComputeLoop(acc0, summaries, detailMap)
  IN  [version |-> 1,
       lastComputedDate |-> clock,
       dailyActivity |-> RebuildDailyActivity(acc.activityMap),
       dailyModelTokens |-> RebuildDailyModelTokens(acc.modelTokensMap),
       modelUsage |-> acc.modelUsage,
       totalSessions |-> Len(summaries),
       totalMessages |-> acc.totalMessages,
       longestSession |->
         [sessionId |-> acc.longestSession.sessionId,
          duration |-> acc.longestSession.duration,
          messageCount |-> acc.longestSession.messageCount,
          timestamp |-> IF acc.longestSession.timestamp = NoTime THEN clock
                        ELSE acc.longestSession.timestamp],
       firstSessionDate |-> IF acc.firstSessionDate = NoTime THEN clock
                            ELSE acc.firstSessionDate,
       hourCounts |-> acc.hourCounts]

(* ------------------------------- state -------------------------------- *)

VARIABLES
  now,          \* the clock: Date.now(), in ms
  sessions,     \* the session log files: sessionId -> summary and detail
  statsFile,    \* the snapshot file stats-cache.json
  diskCache,    \* disk tier: None or Some([mtimeMs, data])
  cachedStats,  \* memory tier (module variable cachedStats)
  mergedCache,  \* merge cache (module variable mergedCache)
  result,       \* what the getStats call that just returned gave (None is
                \* null); cleared by every other step
  obs,          \* what that call did
  lastEnrichment, \* history: the last enrichment this process completed,
                \* None or Some([mtimeMs, at, data, sessions, again]):
                \* sessions are the session logs it was made over, again
                \* tells that the enrichment before it was for the same
                \* snapshot file and the same session logs
  lastComputed, \* history: None, or Some(the instant of the last full
                \* computation made since the snapshot file is missing)
  stream,       \* the log parseDetail is reading: "parent" or "agent"
  log,          \* the lines of that log carrying a model and a usage that
                \* have been read so far
  seenRequestIds, \* request ids seen in that log
  tokensByModel,  \* usage accumulated from that log, per model
  parentTokens, \* None, or Some(tokensByModel of the parent log) once the
                \* linked sub-agent log is being read
  files,        \* session log files: sessionId -> [mtimeMs, content], where
                \* content is what parseSummary yields for the file
  fileWrites,   \* number of writes of session log files so far
  summaryCache, \* module variable summaryCache: sessionId -> [mtimeMs, summary]
  scanResult,   \* what the scan that just returned gave; cleared by every
                \* other step
  scanObs,      \* what that scan did
  projectFiles, \* session log files under the project directories while
                \* scans interleave: << dirName, sessionId >> -> [mtimeMs]
  fsClock,      \* the instant of the last write of one of those files
  scanners,     \* per scan under way: None, or Some([dirName, sessionId,
                \* mtimeMs]) while it awaits parseSummary for a file it has
                \* taken the stat of
  pushed,       \* the record a scan has just pushed on its result, with
                \* the directory of the file it is for; cleared by every
                \* other step
  listed,       \* what the scanAllSessions or getActiveSessions call that
                \* just returned gave, with what scanSessionsInternal gave
                \* it; cleared by every other step
  req,          \* per request: its invocation of parseDetailsInBatches
  mergeWarm,    \* the merge cache holds a fresh enrichment
  projectDirs,  \* the projects directory as readdirSync lists it: a
                \* sequence of [dirName, sessionIds], sessionIds being the
                \* sessions whose <sessionId>.jsonl the directory holds
  found,        \* what the getSessionDetail call that just returned did;
                \* cleared by every other step
  parentLog,    \* the lines of a session log, in order
  agentLogs,    \* the linked sub-agent logs: agent id -> lines, in order
  detail        \* what the parseDetail call that just returned gave;
                \* cleared by every other step

statsVars ==
  << now, sessions, statsFile, diskCache, cachedStats, mergedCache, result,
     obs, lastEnrichment, lastComputed >>

tokVars == << stream, log, seenRequestIds, tokensByModel, parentTokens >>

scanVars ==
  << files, fileWrites, summaryCache, scanResult, scanObs, listed >>

scannerVars == << projectFiles, fsClock, scanners, pushed >>

batchVars == << req, mergeWarm >>

detailVars == << projectDirs, found >>

agentVars == << parentLog, agentLogs, detail >>

\* The clock visits the first instant of each day.
DayStarts == {d * DayMs : d \in 0..MaxDay}

\* When the cache tiers are examined it also visits, on the last day, the
\* instants 59999 and 60000 ms later, which straddle the staleness window
\* of the merge cache.
DayOffsets == {0, MERGE_STALENESS_MS - 1, MERGE_STALENESS_MS}

CacheInstants ==
  {d * DayMs : d \in 0..MaxCacheDay}
    \cup {MaxCacheDay * DayMs + o : o \in DayOffsets}

\* The three kinds of session log of the model, as the summary parser and
\* parseDetail see them: a log with tool calls and token usage; a log that
\* parseDetail cannot parse; and a log without tool calls or usage whose
\* summary carries no lastActiveAt and counts one message more than the
\* full parse finds turns.
SessionShapes ==
  { [messageCount |-> 2, hasLastActive |-> TRUE,
     detail |-> Some([turns |-> << "user", "assistant" >>,
                      toolFrequency |-> [t \in {"Read", "Bash"} |-> 1],
                      tokensByModel |->
                        [m \in {"m"} |->
                           [inputTokens |-> 1000, outputTokens |-> 200,
                            cacheReadInputTokens |-> 50,
                            cacheCreationInputTokens |-> 10]]])],
    [messageCount |-> 2, hasLastActive |-> TRUE, detail |-> None],
    [messageCount |-> 2, hasLastActive |-> FALSE,
     detail |-> Some([turns |-> << "user" >>,
                      toolFrequency |-> EmptyMap,
                      tokensByModel |-> EmptyMap])] }

\* Session logs are written at the first instant of a day.
SessionInstant(t) == t % DayMs = 0

\* All orders in which a scan may return the given sessions: sorted by
\* lastActiveAt descending, the order of sessions with equal lastActiveAt
\* following the directory listing. A comparison with a missing
\* lastActiveAt is NaN; the comparator is then inconsistent and the order
\* is whatever the sort implementation leaves.
ScanOrders(ss) ==
  LET ids == DOMAIN ss
      n == Cardinality(ids)
      consistent == \A id \in ids : ss[id].lastActiveAt # NoTime
  IN  { p \in [1..n -> ids] :
          /\ \A i, j \in 1..n : i # j => p[i] # p[j]
          /\ consistent =>
               \A i, j \in 1..n :
                 i < j => ss[p[i]].lastActiveAt >= ss[p[j]].lastActiveAt }

\* scanAllSessionsWithPaths() for one of those orders.
Summaries(ss, p) == [i \in 1..Len(p) |-> ss[p[i]]]

NoObs ==
  [tier |-> "none", diskRead |-> FALSE, sourceRead |-> FALSE,
   path |-> "none", scanned |-> FALSE, parsed |-> {},
   mergeRead |-> FALSE, mergeWrite |-> FALSE, threw |-> FALSE]

(* ------------------------------ getStats ------------------------------ *)

\* Variant of the memory tier that does not compare modification times.
MemoryTierHitAnyMtime(cached, mtimeMs) == cached # None

\* cachedStats && cachedStats.mtimeMs === stat.mtimeMs
MemoryTierHit(cached, mtimeMs) ==
  cached # None /\ cached[1].mtimeMs = mtimeMs

\* readDiskCache('stats', mtimeMs, StatsCacheSchema)
ReadDiskCache(disk, mtimeMs) ==
  IF disk # None /\ disk[1].mtimeMs = mtimeMs THEN Some(disk[1].data)
  ELSE None

\* writeDiskCache('stats', statsPath, mtimeMs, result)
WriteDiskCache(disk, mtimeMs, data) ==
  Some([mtimeMs |-> mtimeMs, data |-> data])

\* Variant in which a snapshot computed today already counts as stale.
UpToDateStrict(stats, clock) ==
  ExtractDateString(stats.lastComputedDate) > ExtractDateString(clock)

\* lastComputed >= today
UpToDate(stats, clock) ==
  ExtractDateString(stats.lastComputedDate) >= ExtractDateString(clock)

\* Variant of the merge cache whose window includes its last instant.
MergeCacheHitInclusive(merged, mtimeMs, clock) ==
  /\ merged # None
  /\ merged[1].mtimeMs = mtimeMs
  /\ clock - merged[1].mergedAt <= MERGE_STALENESS_MS

\* mergedCache && mergedCache.mtimeMs === mtimeMs &&
\*   Date.now() - mergedCache.mergedAt < MERGE_STALENESS_MS
MergeCacheHit(merged, mtimeMs, clock) ==
  /\ merged # None
  /\ merged[1].mtimeMs = mtimeMs
  /\ clock - merged[1].mergedAt < MERGE_STALENESS_MS

SessionIds(summaries) == {summaries[i].sessionId : i \in 1..Len(summaries)}

\* Variant of the catch block that empties the merge cache.
EnrichFailedClearingCache(stats, merged) ==
  [result |-> Some(stats), mergedCache |-> None, path |-> "enrichFailed",
   scanned |-> TRUE, parsed |-> {},
   mergeRead |-> TRUE, mergeWrite |-> TRUE, threw |-> FALSE]

\* Variant of the catch block that returns nothing.
EnrichFailedToNull(stats, merged) ==
  [result |-> None, mergedCache |-> merged, path |-> "enrichFailed",
   scanned |-> TRUE, parsed |-> {},
   mergeRead |-> TRUE, mergeWrite |-> FALSE, threw |-> FALSE]

\* catch { return stats }: what maybeEnrichWithRecentSessions returns when
\* mergeRecentSessions throws.
EnrichFailed(stats, merged) ==
  [result |-> Some(stats), mergedCache |-> merged, path |-> "enrichFailed",
   scanned |-> TRUE, parsed |-> {},
   mergeRead |-> TRUE, mergeWrite |-> FALSE, threw |-> FALSE]

\* maybeEnrichWithRecentSessions(stats, mtimeMs). scan is what
\* scanAllSessionsWithPaths settles to: None when it rejects, which makes
\* mergeRecentSessions throw.
\* Yields the returned value, the merge cache afterwards and what was done.
MaybeEnrichWithRecentSessions(stats, mtimeMs, merged, clock, scan) ==
  IF UpToDate(stats, clock)
    THEN [result |-> Some(stats), mergedCache |-> merged, path |-> "asis",
          scanned |-> FALSE, parsed |-> {},
          mergeRead |-> FALSE, mergeWrite |-> FALSE, threw |-> FALSE]
  ELSE IF MergeCacheHit(merged, mtimeMs, clock)
    THEN [result |-> Some(merged[1].data), mergedCache |-> merged,
          path |-> "mergeHit", scanned |-> FALSE, parsed |-> {},
          mergeRead |-> TRUE, mergeWrite |-> FALSE, threw |-> FALSE]
  ELSE IF scan = None
    THEN EnrichFailed(stats, merged)
  ELSE LET data == MergeRecentSessions(stats, scan[1])
       IN  [result |-> Some(data),
            mergedCache |->
              Some([mtimeMs |-> mtimeMs, mergedAt |-> clock, data |-> data]),
            path |-> "enriched", scanned |-> TRUE,
            parsed |-> SessionIds(RecentSessions(stats, scan[1])),
            mergeRead |-> TRUE, mergeWrite |-> TRUE, threw |-> FALSE]

\* Variant of computeStatsFromSessions without its catch block.
ComputeThrows(merged) ==
  [result |-> None, mergedCache |-> merged, path |-> "computeFailed",
   scanned |-> TRUE, parsed |-> {},
   mergeRead |-> FALSE, mergeWrite |-> FALSE, threw |-> TRUE]

\* catch { return null } of computeStatsFromSessions: the scan rejected.
ComputeFailed(merged) ==
  [result |-> None, mergedCache |-> merged, path |-> "computeFailed",
   scanned |-> TRUE, parsed |-> {},
   mergeRead |-> FALSE, mergeWrite |-> FALSE, threw |-> FALSE]

\* computeStatsFromSessions()
ComputeStatsFromSessions(merged, clock, scan) ==
  IF scan = None
    THEN ComputeFailed(merged)
  ELSE [result |-> Some(ComputeFromSummaries(scan[1], clock)),
        mergedCache |-> merged, path |-> "computed",
        scanned |-> TRUE, parsed |-> SessionIds(scan[1]),
        mergeRead |-> FALSE, mergeWrite |-> FALSE, threw |-> FALSE]

\* try { return await computeStatsFromSessions() } catch { return null }
CatchToNull(r) ==
  IF r.threw THEN [r EXCEPT !.result = None, !.threw = FALSE] ELSE r

\* Variant in which the memory tier is given the enriched result.
WithTiersKeepingResult(r, tier, diskRead, sourceRead, cached, disk) ==
  [result |-> r.result, mergedCache |-> r.mergedCache,
   cachedStats |-> IF r.path = "enriched"
                     THEN Some([mtimeMs |-> cached[1].mtimeMs,
                                data |-> r.result[1]])
                     ELSE cached,
   diskCache |-> disk,
   obs |-> [tier |-> tier, diskRead |-> diskRead, sourceRead |-> sourceRead,
            path |-> r.path, scanned |-> r.scanned, parsed |-> r.parsed,
            mergeRead |-> r.mergeRead, mergeWrite |-> r.mergeWrite,
            threw |-> r.threw]]

WithTiers(r, tier, diskRead, sourceRead, cached, disk) ==
  [result |-> r.result, mergedCache |-> r.mergedCache,
   cachedStats |-> cached, diskCache |-> disk,
   obs |-> [tier |-> tier, diskRead |-> diskRead, sourceRead |-> sourceRead,
            path |-> r.path, scanned |-> r.scanned, parsed |-> r.parsed,
            mergeRead |-> r.mergeRead, mergeWrite |-> r.mergeWrite,
            threw |-> r.threw]]

\* Variant in which the snapshot file is written again when it has been
\* parsed.
SnapshotRewritten(file, o) ==
  IF o.tier = "source" THEN [file EXCEPT !.mtimeMs = @ + 1] ELSE file

\* The snapshot file after parseStats: statsPath is passed to stat and to
\* readFile, and to writeDiskCache, which writes the disk tier.
SnapshotAfter(file, o) == file

\* parseStats(): the three tiers in order, then enrichment or fallback.
ParseStats(file, cached, disk, merged, clock, scan) ==
  IF file.kind = "missing"
    THEN WithTiers(CatchToNull(ComputeStatsFromSessions(merged, clock, scan)),
                   "none", FALSE, FALSE, cached, disk)
  ELSE IF MemoryTierHit(cached, file.mtimeMs)
    THEN WithTiers(MaybeEnrichWithRecentSessions(cached[1].data, file.mtimeMs,
                                                 merged, clock, scan),
                   "memory", FALSE, FALSE, cached, disk)
  ELSE IF ReadDiskCache(disk, file.mtimeMs) # None
    THEN LET diskResult == ReadDiskCache(disk, file.mtimeMs)[1]
         IN  WithTiers(MaybeEnrichWithRecentSessions(diskResult, file.mtimeMs,
                                                     merged, clock, scan),
                       "disk", TRUE, FALSE,
                       Some([mtimeMs |-> file.mtimeMs, data |-> diskResult]),
                       disk)
  ELSE IF file.kind = "valid"
    THEN LET parsed == file.data[1]
         IN  WithTiers(MaybeEnrichWithRecentSessions(parsed, file.mtimeMs,
                                                     merged, clock, scan),
                       "source", TRUE, TRUE,
                       Some([mtimeMs |-> file.mtimeMs, data |-> parsed]),
                       WriteDiskCache(disk, file.mtimeMs, parsed))
  ELSE WithTiers(ComputeStatsFromSessions(merged, clock, scan),
                 "invalid", TRUE, TRUE, cached, disk)

(* ------------------ token accumulation of parseDetail ----------------- *)

RequestIds == {"req-same", "req-different"}

Usages ==
  { [inputTokens |-> 5000, outputTokens |-> 1000,
     cacheReadInputTokens |-> 2000, cacheCreationInputTokens |-> 500],
    [inputTokens |-> 8000, outputTokens |-> 2000,
     cacheReadInputTokens |-> 3000, cacheCreationInputTokens |-> 1000] }

\* A log line that carries a model and a usage, with its request id.
LogLines == [requestId : RequestIds, model : Models, usage : Usages]

\* Variant of the accumulation that adds every line.
AccumulateEveryLine(acc, line) ==
  [seenRequestIds |-> acc.seenRequestIds \cup {line.requestId},
   tokensByModel |->
     Put(acc.tokensByModel, line.model,
         AddUsage(Get(acc.tokensByModel, line.model, ZeroUsage),
                  line.usage))]

\* One line of token accumulation: the model/usage pair is added to the
\* running total only the first time its request id is seen.
AccumulateTokens(acc, line) ==
  IF line.requestId \in acc.seenRequestIds THEN acc
  ELSE [seenRequestIds |-> acc.seenRequestIds \cup {line.requestId},
        tokensByModel |->
          Put(acc.tokensByModel, line.model,
              AddUsage(Get(acc.tokensByModel, line.model, ZeroUsage),
                       line.usage))]

\* Accumulation over a separate stream starts from nothing.
FreshAccumulation == [seenRequestIds |-> {}, tokensByModel |-> EmptyMap]

(* --------------------------- session scanner -------------------------- *)

NoScan ==
  [ran |-> FALSE, order |-> << >>, statFailed |-> {}, parsedIds |-> {},
   hits |-> {}, replaced |-> {}, active |-> EmptyMap]

\* What parseSummary yields for a file written as the k-th write: nothing,
\* or a summary with its last timestamp; its message count stands for the
\* content, which differs after every write.
Contents(k) ==
  {None} \cup {Some([lastActiveAt |-> t, messageCount |-> k,
                     isActive |-> FALSE]) : t \in 1..MaxActiveAt}

\* path.join(getProjectsDir(), project.dirName, file): the absolute path of
\* the log file of a session.
FilePath(sessionId) == << "projectsDir", sessionId >>

\* { ...summary, filePath }: a record pushed on the result of a scan.
WithPath(sessionId, summary) ==
  [sessionId |-> sessionId, summary |-> summary,
   filePath |-> FilePath(sessionId)]

\* Variant of the cache test that does not compare modification times.
SummaryCacheHasEntry(cache, sessionId, mtimeMs) == sessionId \in DOMAIN cache

\* cached && cached.mtimeMs === stat.mtimeMs
SummaryCacheHit(cache, sessionId, mtimeMs) ==
  sessionId \in DOMAIN cache /\ cache[sessionId].mtimeMs = mtimeMs

\* Variant that returns the cached summary with the flag it was stored with.
KeepCachedActive(summary, active) == summary

\* { ...cached.summary, isActive: active, filePath }
RefreshActive(summary, active) == [summary EXCEPT !.isActive = active]

\* Variant of the loop body in which a summary parse that yields nothing
\* ends the scan with no records.
ScanFileAbortOnNothing(acc, sessionId, file, statOk, active) ==
  IF statOk /\ ~SummaryCacheHit(acc.cache, sessionId, file.mtimeMs)
            /\ file.content = None
    THEN [acc EXCEPT !.summaries = << >>,
                     !.parsedIds = @ \cup {sessionId}]
  ELSE IF ~statOk THEN acc
  ELSE IF SummaryCacheHit(acc.cache, sessionId, file.mtimeMs)
    THEN [acc EXCEPT
            !.summaries =
              Append(@, WithPath(sessionId,
                                 RefreshActive(acc.cache[sessionId].summary,
                                               active))),
            !.hits = @ \cup {sessionId}]
  ELSE LET summary == [file.content[1] EXCEPT !.isActive = active]
       IN  [acc EXCEPT
              !.cache = Put(@, sessionId,
                            [mtimeMs |-> file.mtimeMs, summary |-> summary]),
              !.summaries = Append(@, WithPath(sessionId, summary)),
              !.parsedIds = @ \cup {sessionId}]

\* Body of the loop over the session files of scanSessionsInternal, for one
\* file: statOk is whether its stat succeeded, active what isSessionActive
\* returns for it.
ScanFile(acc, sessionId, file, statOk, active) ==
  IF ~statOk THEN acc
  ELSE IF SummaryCacheHit(acc.cache, sessionId, file.mtimeMs)
    THEN [acc EXCEPT
            !.summaries =
              Append(@, WithPath(sessionId,
                                 RefreshActive(acc.cache[sessionId].summary,
                                               active))),
            !.hits = @ \cup {sessionId}]
  ELSE IF file.content = None
    THEN [acc EXCEPT !.parsedIds = @ \cup {sessionId}]
  ELSE LET summary == [file.content[1] EXCEPT !.isActive = active]
       IN  [acc EXCEPT
              !.cache = Put(@, sessionId,
                            [mtimeMs |-> file.mtimeMs, summary |-> summary]),
              !.summaries = Append(@, WithPath(sessionId, summary)),
              !.parsedIds = @ \cup {sessionId}]

RECURSIVE ScanLoop(_, _, _, _, _)
ScanLoop(acc, order, fs, statOk, active) ==
  IF order = << >> THEN acc
  ELSE LET sessionId == Head(order)
       IN  ScanLoop(ScanFile(acc, sessionId, fs[sessionId],
                             sessionId \in statOk, active[sessionId]),
                    Tail(order), fs, statOk, active)

\* Variant of the sort that leaves the summaries in directory order.
UnsortedSummaries(summaries) == summaries

\* summaries.sort((a, b) => new Date(b.lastActiveAt).getTime()
\*                           - new Date(a.lastActiveAt).getTime())
\* The sort is stable: summaries with equal lastActiveAt keep their order.
SortNewestFirst(summaries) ==
  LET n == Len(summaries)
      p == CHOOSE q \in [1..n -> 1..n] :
             /\ \A i, j \in 1..n : i # j => q[i] # q[j]
             /\ \A i, j \in 1..n :
                  i < j =>
                    \/ summaries[q[i]].summary.lastActiveAt
                         > summaries[q[j]].summary.lastActiveAt
                    \/ /\ summaries[q[i]].summary.lastActiveAt
                            = summaries[q[j]].summary.lastActiveAt
                       /\ q[i] < q[j]
  IN  [i \in 1..n |-> summaries[p[i]]]

\* scanSessionsInternal(): order is the order in which the files are
\* enumerated.
ScanSessionsInternal(cache, fs, order, statOk, active) ==
  LET acc == ScanLoop([cache |-> cache, summaries |-> << >>,
                       parsedIds |-> {}, hits |-> {}],
                      order, fs, statOk, active)
  IN  [cache |-> acc.cache,
       summaries |-> SortNewestFirst(acc.summaries),
       parsedIds |-> acc.parsedIds,
       hits |-> acc.hits]

\* Variant of the mapping of scanAllSessions that returns the record whole.
KeepFilePath(record) == record

\* ({ filePath: _filePath, ...summary }) => summary
StripFilePath(record) ==
  [sessionId |-> record.sessionId, summary |-> record.summary]

\* scanAllSessions(): results.map(strip)
ScanAllSessions(results) ==
  [i \in 1..Len(results) |-> StripFilePath(results[i])]

\* scanAllSessionsWithPaths(): return scanSessionsInternal()
ScanAllSessionsWithPaths(results) == results

IsActiveRecord(s) == s.summary.isActive

\* getActiveSessions(): all.filter((s) => s.isActive)
GetActiveSessions(results) ==
  SelectSeq(ScanAllSessions(results), IsActiveRecord)

\* All orders in which the directory listing may enumerate the files.
Enumerations(ids) ==
  LET n == Cardinality(ids)
  IN  {p \in [1..n -> ids] : \A i, j \in 1..n : i # j => p[i] # p[j]}

(* ----------------------- batched detail parsing ----------------------- *)

Requests == 1..MaxRequests

\* An invocation of parseDetailsInBatches over the sessions 1..n, in this
\* order: batchStart is the loop variable i (counted from 1), started the
\* sessions whose parseDetail has been called, ok and failed those whose
\* parse has settled, results the Map being filled.
IdleRequest ==
  [phase |-> "idle", n |-> 0, batchStart |-> 1, started |-> {}, ok |-> {},
   failed |-> {}, results |-> EmptyMap]

\* The detail parseDetail yields for a session.
DetailOf(id) == << "detail", id >>

\* sessions.slice(i, i + batchSize)
BatchOf(n, batchStart) ==
  {id \in 1..n : batchStart <= id /\ id < batchStart + BatchSize}

InFlight(rq) == rq.started \ (rq.ok \cup rq.failed)

\* One turn of the loop up to the await: the loop ends when i has passed
\* the last session, otherwise parseDetail is called for every session of
\* the batch.
LaunchBatch(rq, batchStart) ==
  IF batchStart > rq.n
    THEN [rq EXCEPT !.phase = "returned", !.batchStart = batchStart]
    ELSE [rq EXCEPT !.phase = "parsing", !.batchStart = batchStart,
                    !.started = @ \cup BatchOf(rq.n, batchStart)]

\* Variant without the try/catch around parseDetail: a failing parse
\* rejects the Promise.all of its batch and with it the invocation.
SettleRejecting(rq, id, parsed) ==
  IF parsed THEN [rq EXCEPT !.ok = @ \cup {id}]
  ELSE [rq EXCEPT !.failed = @ \cup {id}, !.phase = "rejected"]

\* try { return { sessionId, detail: await parseDetail(...) } }
\* catch { return null }
SettleCaught(rq, id, parsed) ==
  IF parsed THEN [rq EXCEPT !.ok = @ \cup {id}]
  ELSE [rq EXCEPT !.failed = @ \cup {id}]

\* Variant in which the loop goes on as soon as one parse of the batch has
\* settled.
BatchPartlySettled(rq) ==
  BatchOf(rq.n, rq.batchStart) \cap (rq.ok \cup rq.failed) # {}

\* Variant in which the await of a batch ends only when every parse of the
\* batch has yielded a detail.
BatchAllSucceeded(rq) == BatchOf(rq.n, rq.batchStart) \subseteq rq.ok

\* await Promise.all(...): every parse of the batch has settled.
BatchSettled(rq) == BatchOf(rq.n, rq.batchStart) \subseteq (rq.ok \cup rq.failed)

\* Numbers of sessions after the cutoff a call may find: none, one, and
\* one more than a batch holds.
ServedSizes == {0, 1, BatchSize + 1}

\* Sessions handed to parseDetailsInBatches by the calls so far.
SessionsBeingServed ==
  LET RECURSIVE Sum(_)
      Sum(k) == IF k = 0 THEN 0 ELSE req[k].n + Sum(k - 1)
  IN  Sum(MaxRequests)

\* for (const result of details) if (result) results.set(...)
StoreResults(rq) ==
  LET stored == BatchOf(rq.n, rq.batchStart) \cap rq.ok
  IN  [id \in (DOMAIN rq.results) \cup stored |->
         IF id \in stored THEN DetailOf(id) ELSE rq.results[id]]

(* ------------------------------ actions ------------------------------- *)

\* What a step that is no getStats call does to the state of the stats
\* engine: it leaves it alone, and what the last call gave is forgotten.
QuietStats ==
  /\ result' = None
  /\ obs' = NoObs
  /\ UNCHANGED << now, sessions, statsFile, diskCache, cachedStats,
                  mergedCache, lastEnrichment, lastComputed >>

\* The same for a step that is no scan.
QuietScan ==
  /\ scanResult' = None
  /\ scanObs' = NoScan
  /\ listed' = None
  /\ UNCHANGED << files, fileWrites, summaryCache >>
  /\ UNCHANGED scannerVars

\* The same for a step that is no getSessionDetail call.
QuietDetail ==
  /\ found' = None
  /\ UNCHANGED projectDirs

Init ==
  /\ now = 0
  /\ sessions = EmptyMap
  /\ statsFile = [kind |-> "missing", mtimeMs |-> NoTime, data |-> None]
  /\ diskCache = None
  /\ cachedStats = None
  /\ mergedCache = None
  /\ result = None
  /\ obs = NoObs
  /\ lastEnrichment = None
  /\ lastComputed = None
  /\ stream = "parent"
  /\ log = << >>
  /\ seenRequestIds = {}
  /\ tokensByModel = EmptyMap
  /\ parentTokens = None
  /\ files = EmptyMap
  /\ fileWrites = 0
  /\ summaryCache = EmptyMap
  /\ scanResult = None
  /\ scanObs = NoScan
  /\ listed = None
  /\ projectFiles = EmptyMap
  /\ fsClock = 0
  /\ scanners = [k \in 1..MaxScanners |-> None]
  /\ pushed = None
  /\ req = [r \in Requests |-> IdleRequest]
  /\ mergeWarm = FALSE
  /\ projectDirs = << >>
  /\ found = None
  /\ parentLog = << >>
  /\ agentLogs = EmptyMap
  /\ detail = None

\* Time passes to the first instant of a later day.
TickDay ==
  /\ \E t \in DayStarts : t > now /\ now' = t
  /\ result' = None
  /\ obs' = NoObs
  /\ UNCHANGED << sessions, statsFile, diskCache, cachedStats, mergedCache,
                  lastEnrichment, lastComputed >>
  /\ UNCHANGED tokVars
  /\ QuietDetail
  /\ UNCHANGED agentVars
  /\ QuietScan
  /\ UNCHANGED batchVars

\* Time passes to a later instant.
TickInstant ==
  /\ \E t \in CacheInstants : t > now /\ now' = t
  /\ result' = None
  /\ obs' = NoObs
  /\ UNCHANGED << sessions, statsFile, diskCache, cachedStats, mergedCache,
                  lastEnrichment, lastComputed >>
  /\ UNCHANGED tokVars
  /\ QuietDetail
  /\ UNCHANGED agentVars
  /\ QuietScan
  /\ UNCHANGED batchVars

\* A new session log appears; it is being written now.
NewSession(max) ==
  /\ Cardinality(DOMAIN sessions) < max
  /\ SessionInstant(now)
  /\ \E shape \in SessionShapes :
       LET id == Cardinality(DOMAIN sessions) + 1
       IN  sessions' =
             Put(sessions, id,
                 [sessionId |-> id, startedAt |-> now,
                  lastActiveAt |->
                    IF shape.hasLastActive THEN now ELSE NoTime,
                  durationMs |-> 0, messageCount |-> shape.messageCount,
                  detail |-> shape.detail])
  /\ result' = None
  /\ obs' = NoObs
  /\ UNCHANGED << now, statsFile, diskCache, cachedStats, mergedCache,
                  lastEnrichment, lastComputed >>
  /\ UNCHANGED tokVars
  /\ QuietDetail
  /\ UNCHANGED agentVars
  /\ QuietScan
  /\ UNCHANGED batchVars

AddSession == NewSession(MaxSessions)

AddCacheSession == NewSession(MaxCacheSessions)

\* An existing session becomes active again: one more message is appended
\* to its log.
ResumeSession ==
  /\ SessionInstant(now)
  /\ \E id \in DOMAIN sessions :
       LET s == sessions[id]
       IN  /\ LastActiveOrStarted(s) < now
           /\ s.messageCount < MaxMessages
           /\ sessions' =
                [sessions EXCEPT ![id] =
                   [s EXCEPT
                      !.lastActiveAt = now,
                      !.durationMs = now - s.startedAt,
                      !.messageCount = @ + 1,
                      !.detail =
                        IF @ = None THEN None
                        ELSE Some([@[1] EXCEPT
                                     !.turns = Append(@, "user")])]]
  /\ result' = None
  /\ obs' = NoObs
  /\ UNCHANGED << now, statsFile, diskCache, cachedStats, mergedCache,
                  lastEnrichment, lastComputed >>
  /\ UNCHANGED tokVars
  /\ QuietDetail
  /\ UNCHANGED agentVars
  /\ QuietScan
  /\ UNCHANGED batchVars

\* The upstream job writes a snapshot computed now from the sessions that
\* exist now. Every modification of the snapshot file gives it a
\* modification time later than all earlier ones.
UpstreamWrite ==
  /\ now > statsFile.mtimeMs
  /\ \E p \in ScanOrders(sessions) :
       statsFile' =
         [kind |-> "valid", mtimeMs |-> now,
          data |-> Some(ComputeFromSummaries(Summaries(sessions, p), now))]
  /\ result' = None
  /\ obs' = NoObs
  /\ UNCHANGED << now, sessions, diskCache, cachedStats, mergedCache,
                  lastEnrichment >>
  /\ lastComputed' = None
  /\ UNCHANGED tokVars
  /\ QuietDetail
  /\ UNCHANGED agentVars
  /\ QuietScan
  /\ UNCHANGED batchVars

\* The snapshot file is rewritten with the content it had: only its
\* modification time changes.
TouchSnapshot ==
  /\ now > statsFile.mtimeMs
  /\ statsFile.kind = "valid"
  /\ statsFile' = [statsFile EXCEPT !.mtimeMs = now]
  /\ result' = None
  /\ obs' = NoObs
  /\ UNCHANGED << now, sessions, diskCache, cachedStats, mergedCache,
                  lastEnrichment >>
  /\ lastComputed' = None
  /\ UNCHANGED tokVars
  /\ QuietDetail
  /\ UNCHANGED agentVars
  /\ QuietScan
  /\ UNCHANGED batchVars

\* The snapshot file is replaced by one that cannot be read, is not JSON or
\* fails StatsCacheSchema.
BreakSnapshot ==
  /\ now > statsFile.mtimeMs
  /\ \E kind \in {"unreadable", "notjson", "badschema"} :
       statsFile' = [kind |-> kind, mtimeMs |-> now, data |-> None]
  /\ result' = None
  /\ obs' = NoObs
  /\ UNCHANGED << now, sessions, diskCache, cachedStats, mergedCache,
                  lastEnrichment >>
  /\ lastComputed' = None
  /\ UNCHANGED tokVars
  /\ QuietDetail
  /\ UNCHANGED agentVars
  /\ QuietScan
  /\ UNCHANGED batchVars

\* The snapshot file is removed.
DeleteSnapshot ==
  /\ statsFile.kind # "missing"
  /\ statsFile' = [statsFile EXCEPT !.kind = "missing", !.data = None]
  /\ result' = None
  /\ obs' = NoObs
  /\ UNCHANGED << now, sessions, diskCache, cachedStats, mergedCache,
                  lastEnrichment >>
  /\ lastComputed' = None
  /\ UNCHANGED tokVars
  /\ QuietDetail
  /\ UNCHANGED agentVars
  /\ QuietScan
  /\ UNCHANGED batchVars

\* The process restarts: module state is lost, the disk tier survives.
Restart ==
  /\ cachedStats # None \/ mergedCache # None
  /\ cachedStats' = None
  /\ mergedCache' = None
  /\ result' = None
  /\ obs' = NoObs
  /\ lastEnrichment' = None
  /\ lastComputed' = None
  /\ UNCHANGED << now, sessions, statsFile, diskCache >>
  /\ UNCHANGED tokVars
  /\ QuietDetail
  /\ UNCHANGED agentVars
  /\ QuietScan
  /\ UNCHANGED batchVars

\* One getStats() call, from the stat of the snapshot file to the return.
GetStats ==
  /\ \E scanOk \in BOOLEAN, p \in ScanOrders(sessions) :
       LET scan == IF scanOk THEN Some(Summaries(sessions, p)) ELSE None
           r == ParseStats(statsFile, cachedStats, diskCache, mergedCache,
                           now, scan)
       IN  /\ result' = r.result
           /\ mergedCache' = r.mergedCache
           /\ cachedStats' = r.cachedStats
           /\ diskCache' = r.diskCache
           /\ obs' = r.obs
           /\ lastEnrichment' =
                IF r.obs.path = "enriched"
                  THEN Some([mtimeMs |-> statsFile.mtimeMs, at |-> now,
                             data |-> r.result[1], sessions |-> sessions,
                             again |->
                               /\ lastEnrichment # None
                               /\ lastEnrichment[1].mtimeMs
                                    = statsFile.mtimeMs
                               /\ lastEnrichment[1].sessions = sessions])
                  ELSE lastEnrichment
           /\ lastComputed' =
                IF statsFile.kind = "missing" /\ r.obs.path = "computed"
                  THEN Some(now)
                  ELSE lastComputed
           /\ statsFile' = SnapshotAfter(statsFile, r.obs)
  /\ UNCHANGED << now, sessions >>
  /\ UNCHANGED tokVars
  /\ QuietDetail
  /\ UNCHANGED agentVars
  /\ QuietScan
  /\ UNCHANGED batchVars

\* Sessions and snapshots evolving over the days, and the aggregates
\* getStats returns for them.
Next ==
  \/ TickDay
  \/ AddSession
  \/ ResumeSession
  \/ UpstreamWrite
  \/ GetStats

vars ==
  << statsVars, tokVars, scanVars, batchVars, detailVars, agentVars,
     scannerVars >>

Spec == Init /\ [][Next]_vars

\* The cache tiers and the merge cache: the snapshot file is written,
\* touched, broken and removed, the process restarts, and the clock visits
\* the instants around the staleness window.
NextCache ==
  \/ TickInstant
  \/ AddCacheSession
  \/ UpstreamWrite
  \/ TouchSnapshot
  \/ BreakSnapshot
  \/ DeleteSnapshot
  \/ Restart
  \/ GetStats

SpecCache == Init /\ [][NextCache]_vars

\* parseDetail reads the next line of the current log that carries a model
\* and a usage.
ReadLine ==
  /\ Len(log) < MaxLines
  /\ \E line \in LogLines :
       LET acc == AccumulateTokens([seenRequestIds |-> seenRequestIds,
                                    tokensByModel |-> tokensByModel], line)
       IN  /\ log' = Append(log, line)
           /\ seenRequestIds' = acc.seenRequestIds
           /\ tokensByModel' = acc.tokensByModel
  /\ UNCHANGED << stream, parentTokens >>
  /\ QuietStats
  /\ QuietDetail
  /\ UNCHANGED agentVars
  /\ QuietScan
  /\ UNCHANGED batchVars

\* The parent log is at its end; parseDetail finds the linked sub-agent log
\* and applies token accumulation to it.
OpenSubagentLog ==
  /\ stream = "parent"
  /\ stream' = "agent"
  /\ parentTokens' = Some(tokensByModel)
  /\ log' = << >>
  /\ seenRequestIds' = FreshAccumulation.seenRequestIds
  /\ tokensByModel' = FreshAccumulation.tokensByModel
  /\ QuietStats
  /\ QuietDetail
  /\ UNCHANGED agentVars
  /\ QuietScan
  /\ UNCHANGED batchVars

\* parseDetail reading a session log and then its linked sub-agent log.
NextTokens ==
  \/ ReadLine
  \/ OpenSubagentLog

SpecTokens == Init /\ [][NextTokens]_vars

\* A new session log file appears.
CreateSessionFile ==
  /\ fileWrites < MaxFileWrites
  /\ Cardinality(DOMAIN files) < MaxFiles
  /\ fileWrites' = fileWrites + 1
  /\ \E content \in Contents(fileWrites + 1) :
       files' = Put(files, Cardinality(DOMAIN files) + 1,
                    [mtimeMs |-> fileWrites + 1, content |-> content])
  /\ scanResult' = None
  /\ scanObs' = NoScan
  /\ listed' = None
  /\ UNCHANGED summaryCache
  /\ UNCHANGED scannerVars
  /\ QuietStats
  /\ UNCHANGED tokVars
  /\ QuietDetail
  /\ UNCHANGED agentVars
  /\ UNCHANGED batchVars

\* A session log file is written again: its content and its modification
\* time change.
ModifySessionFile ==
  /\ fileWrites < MaxFileWrites
  /\ fileWrites' = fileWrites + 1
  /\ \E id \in DOMAIN files : \E content \in Contents(fileWrites + 1) :
       files' = [files EXCEPT ![id] = [mtimeMs |-> fileWrites + 1,
                                       content |-> content]]
  /\ scanResult' = None
  /\ scanObs' = NoScan
  /\ listed' = None
  /\ UNCHANGED summaryCache
  /\ UNCHANGED scannerVars
  /\ QuietStats
  /\ UNCHANGED tokVars
  /\ QuietDetail
  /\ UNCHANGED agentVars
  /\ UNCHANGED batchVars

\* One scan (scanAllSessionsWithPaths), from the enumeration of the files
\* to the return. A file may vanish between enumeration and stat.
Scan ==
  /\ \E order \in Enumerations(DOMAIN files) :
     \E statOk \in SUBSET (DOMAIN files) :
     \E active \in [DOMAIN files -> BOOLEAN] :
       LET r == ScanSessionsInternal(summaryCache, files, order, statOk,
                                     active)
       IN  /\ summaryCache' = r.cache
           /\ scanResult' = Some(ScanAllSessionsWithPaths(r.summaries))
           /\ scanObs' =
                [ran |-> TRUE, order |-> order,
                 statFailed |-> DOMAIN files \ statOk,
                 parsedIds |-> r.parsedIds, hits |-> r.hits,
                 replaced |-> r.parsedIds \cap DOMAIN summaryCache,
                 active |-> active]
  /\ listed' = None
  /\ UNCHANGED << files, fileWrites >>
  /\ UNCHANGED scannerVars
  /\ QuietStats
  /\ UNCHANGED tokVars
  /\ QuietDetail
  /\ UNCHANGED agentVars
  /\ UNCHANGED batchVars

\* One call of scanAllSessions (api = "scanAllSessions") or of
\* getActiveSessions (api = "getActiveSessions"), from the enumeration of
\* the files to the return.
ListCall(api) ==
  /\ \E order \in Enumerations(DOMAIN files) :
     \E statOk \in SUBSET (DOMAIN files) :
     \E active \in [DOMAIN files -> BOOLEAN] :
       LET r == ScanSessionsInternal(summaryCache, files, order, statOk,
                                     active)
       IN  /\ summaryCache' = r.cache
           /\ listed' =
                Some([api |-> api,
                      internal |-> r.summaries,
                      returned |->
                        IF api = "scanAllSessions"
                          THEN ScanAllSessions(r.summaries)
                          ELSE GetActiveSessions(r.summaries)])
  /\ scanResult' = None
  /\ scanObs' = NoScan
  /\ UNCHANGED << files, fileWrites >>
  /\ UNCHANGED scannerVars
  /\ QuietStats
  /\ UNCHANGED tokVars
  /\ QuietDetail
  /\ UNCHANGED agentVars
  /\ UNCHANGED batchVars

ListSessions == ListCall("scanAllSessions")

ListActiveSessions == ListCall("getActiveSessions")

\* Session log files being written and scanned.
NextScan ==
  \/ CreateSessionFile
  \/ ModifySessionFile
  \/ Scan
  \/ ListSessions
  \/ ListActiveSessions

SpecScan == Init /\ [][NextScan]_vars

\* parseDetailsInBatches(sessions) is called with n sessions.
BeginParsing(r, n) ==
  /\ req[r].phase = "idle"
  /\ req' = [req EXCEPT ![r] = LaunchBatch([IdleRequest EXCEPT !.n = n], 1)]

\* One invocation on its own, over any number of sessions.
StartParsing ==
  /\ \E n \in 0..MaxBatchSessions : BeginParsing(1, n)
  /\ UNCHANGED mergeWarm
  /\ QuietStats
  /\ UNCHANGED tokVars
  /\ QuietDetail
  /\ UNCHANGED agentVars
  /\ QuietScan

\* A getStats request finds the snapshot stale and the merge cache cold,
\* and enriches: mergeRecentSessions hands the sessions after the cutoff
\* to parseDetailsInBatches.
StartEnrichment ==
  /\ ~mergeWarm
  /\ \E r \in Requests : BeginParsing(r, MaxRecentSessions)
  /\ UNCHANGED mergeWarm
  /\ QuietStats
  /\ UNCHANGED tokVars
  /\ QuietDetail
  /\ UNCHANGED agentVars
  /\ QuietScan

\* A parse in flight settles: it yields a detail or throws.
SettleParse ==
  /\ \E r \in Requests : \E id \in InFlight(req[r]) : \E parsed \in BOOLEAN :
       /\ req[r].phase = "parsing"
       /\ req' = [req EXCEPT ![r] = SettleCaught(req[r], id, parsed)]
  /\ UNCHANGED mergeWarm
  /\ QuietStats
  /\ UNCHANGED tokVars
  /\ QuietDetail
  /\ UNCHANGED agentVars
  /\ QuietScan

\* The await of a batch is over: its results are stored and the loop goes
\* on with the next batch, or ends.
ResumeAfterBatch ==
  /\ \E r \in Requests :
       /\ req[r].phase = "parsing"
       /\ BatchSettled(req[r])
       /\ req' = [req EXCEPT ![r] =
                    LaunchBatch([req[r] EXCEPT !.results = StoreResults(req[r])],
                                req[r].batchStart + BatchSize)]
  /\ UNCHANGED mergeWarm
  /\ QuietStats
  /\ UNCHANGED tokVars
  /\ QuietDetail
  /\ UNCHANGED agentVars
  /\ QuietScan

\* mergeRecentSessions has folded the details: the enrichment is stored in
\* the merge cache and the request is answered.
FinishEnrichment ==
  /\ \E r \in Requests :
       /\ req[r].phase = "returned"
       /\ req' = [req EXCEPT ![r].phase = "answered"]
  /\ mergeWarm' = TRUE
  /\ QuietStats
  /\ UNCHANGED tokVars
  /\ QuietDetail
  /\ UNCHANGED agentVars
  /\ QuietScan

\* One invocation of batched detail parsing.
NextBatch ==
  \/ StartParsing
  \/ SettleParse
  \/ ResumeAfterBatch

SpecBatch == Init /\ [][NextBatch]_vars

\* Every parse settles and every continuation runs.
SpecBatchFair ==
  Init /\ [][NextBatch]_vars /\ WF_vars(SettleParse) /\ WF_vars(ResumeAfterBatch)

\* getStats requests served concurrently.
NextRequests ==
  \/ StartEnrichment
  \/ SettleParse
  \/ ResumeAfterBatch
  \/ FinishEnrichment

SpecRequests == Init /\ [][NextRequests]_vars

\* A getStats call arrives at the merge cache: warm, the cached enrichment
\* is returned at once; cold, the sessions after the cutoff go to
\* parseDetailsInBatches, whatever other calls are doing.
StartServing ==
  /\ \E r \in Requests : \E n \in ServedSizes :
       /\ req[r].phase = "idle"
       /\ SessionsBeingServed + n <= MaxServedSessions
       /\ IF mergeWarm
            THEN req' = [req EXCEPT ![r] = [IdleRequest EXCEPT !.phase = "answered"]]
            ELSE BeginParsing(r, n)
  /\ UNCHANGED mergeWarm
  /\ QuietStats
  /\ UNCHANGED tokVars
  /\ QuietDetail
  /\ UNCHANGED agentVars
  /\ QuietScan

\* A parse in flight settles, at most MaxParseFailures of the session
\* files of a call being unreadable.
SettleServedParse ==
  /\ \E r \in Requests : \E id \in InFlight(req[r]) : \E parsed \in BOOLEAN :
       /\ req[r].phase = "parsing"
       /\ ~parsed => Cardinality(req[r].failed) < MaxParseFailures
       /\ req' = [req EXCEPT ![r] = SettleCaught(req[r], id, parsed)]
  /\ UNCHANGED mergeWarm
  /\ QuietStats
  /\ UNCHANGED tokVars
  /\ QuietDetail
  /\ UNCHANGED agentVars
  /\ QuietScan

\* getStats calls served concurrently, over one or two batches.
NextServing ==
  \/ StartServing
  \/ SettleServedParse
  \/ ResumeAfterBatch
  \/ FinishEnrichment

\* Every parse settles and every continuation runs.
SpecServing ==
  /\ Init /\ [][NextServing]_vars
  /\ WF_vars(SettleServedParse) /\ WF_vars(ResumeAfterBatch)
  /\ WF_vars(FinishEnrichment)

(* --------------------------- getSessionDetail -------------------------- *)

\* Names of project directories, and the project paths a caller may ask
\* for: the decoded paths, a raw directory name, and a path no directory
\* stands for.
DirNames == {"-p-a", "-p-b", "plain"}

ProjectPaths == {"/p/a", "/p/b", "-p-a", "/elsewhere"}

DetailSessionIds == 1..MaxSessions

\* decodeProjectDirName(dirName): hyphen-joined segments to a path; a name
\* that is not an encoded path is returned unchanged.
DecodeProjectDirName(dirName) ==
  CASE dirName = "-p-a" -> "/p/a"
    [] dirName = "-p-b" -> "/p/b"
    [] OTHER -> dirName

\* path.join(projectsDir, dirName, `${sessionId}.jsonl`)
SessionFilePath(dirName, sessionId) == << "projectsDir", dirName, sessionId >>

\* decoded === projectPath || dirName === projectPath
MatchesProject(dirName, projectPath) ==
  DecodeProjectDirName(dirName) = projectPath \/ dirName = projectPath

\* One loop of findSessionFile over the listing: the first directory,
\* among those of the project when byProject, that holds the file.
RECURSIVE FirstHolding(_, _, _, _)
FirstHolding(entries, sessionId, projectPath, byProject) ==
  IF entries = << >> THEN None
  ELSE LET dir == Head(entries)
       IN  IF /\ byProject => MatchesProject(dir.dirName, projectPath)
              /\ sessionId \in dir.sessionIds
             THEN Some([path |-> SessionFilePath(dir.dirName, sessionId),
                        dirName |-> dir.dirName])
           ELSE FirstHolding(Tail(entries), sessionId, projectPath, byProject)

\* Variant of findSessionFile without the loop over the directories of the
\* project.
FindSessionFileAnywhere(listing, sessionId, projectPath) ==
  IF listing = None THEN None
  ELSE FirstHolding(listing[1], sessionId, projectPath, FALSE)

\* findSessionFile(sessionId, projectPath): listing is None when
\* readdirSync throws.
FindSessionFile(listing, sessionId, projectPath) ==
  IF listing = None THEN None
  ELSE LET byPath == FirstHolding(listing[1], sessionId, projectPath, TRUE)
       IN  IF byPath # None THEN byPath
           ELSE FirstHolding(listing[1], sessionId, projectPath, FALSE)

\* A project directory appears, anywhere in the listing.
CreateProjectDir ==
  /\ \E dirName \in DirNames : \E k \in 0..Len(projectDirs) :
       /\ \A i \in 1..Len(projectDirs) : projectDirs[i].dirName # dirName
       /\ projectDirs' =
            SubSeq(projectDirs, 1, k)
              \o << [dirName |-> dirName, sessionIds |-> {}] >>
              \o SubSeq(projectDirs, k + 1, Len(projectDirs))
  /\ found' = None
  /\ QuietStats
  /\ UNCHANGED tokVars
  /\ UNCHANGED agentVars
  /\ QuietScan
  /\ UNCHANGED batchVars

\* A session log file appears in a project directory.
CreateSessionLog ==
  /\ \E i \in 1..Len(projectDirs) : \E sessionId \in DetailSessionIds :
       /\ sessionId \notin projectDirs[i].sessionIds
       /\ projectDirs' =
            [projectDirs EXCEPT ![i].sessionIds = @ \cup {sessionId}]
  /\ found' = None
  /\ QuietStats
  /\ UNCHANGED tokVars
  /\ UNCHANGED agentVars
  /\ QuietScan
  /\ UNCHANGED batchVars

\* One getSessionDetail({ sessionId, projectPath }) call: the file is
\* looked for, and the call throws 'Session not found' or hands the path
\* to parseDetail.
GetSessionDetail ==
  /\ \E sessionId \in DetailSessionIds : \E projectPath \in ProjectPaths :
     \E listOk \in BOOLEAN :
       LET listing == IF listOk THEN Some(projectDirs) ELSE None
           filePath == FindSessionFile(listing, sessionId, projectPath)
       IN  found' = Some([sessionId |-> sessionId,
                          projectPath |-> projectPath,
                          listOk |-> listOk,
                          filePath |-> filePath,
                          outcome |-> IF filePath = None
                                        THEN "Session not found"
                                        ELSE "parseDetail"])
  /\ UNCHANGED projectDirs
  /\ QuietStats
  /\ UNCHANGED tokVars
  /\ UNCHANGED agentVars
  /\ QuietScan
  /\ UNCHANGED batchVars

\* Project directories filling up, and session details being asked for.
NextDetail ==
  \/ CreateProjectDir
  \/ CreateSessionLog
  \/ GetSessionDetail

SpecDetail == Init /\ [][NextDetail]_vars

\* getProjectsDir(), as the segments of an absolute path.
ProjectsDir == << "claude", "projects" >>

\* The text of a session id.
IdText(sessionId) == << "1", "2", "3", "4" >>[sessionId]

\* Session ids as a caller may give them, split at the separators: the
\* ids of session files, and strings with '..' segments. The input
\* validator returns its input as it is.
RequestedIds ==
  {<< IdText(k) >> : k \in DetailSessionIds}
    \cup {<< "..", "-p-b", "1" >>, << "..", "..", "history" >>}

\* .jsonl files that may lie on the disk outside the projects root: one
\* next to it. The extension is left out of every path.
OutsideFiles == {<< "claude", "history" >>}

\* path.join normalises: a '.' segment is dropped, a '..' segment takes
\* away the segment before it.
RECURSIVE Normalize(_, _)
Normalize(done, rest) ==
  IF rest = << >> THEN done
  ELSE IF Head(rest) = "." THEN Normalize(done, Tail(rest))
  ELSE IF Head(rest) = ".."
    THEN Normalize(IF done = << >> THEN done
                   ELSE SubSeq(done, 1, Len(done) - 1), Tail(rest))
  ELSE Normalize(Append(done, Head(rest)), Tail(rest))

\* path.join(projectsDir, dirName, `${sessionId}.jsonl`)
PathJoin(projectsDir, dirName, sessionId) ==
  Normalize(<< >>, projectsDir \o << dirName >> \o sessionId)

\* The .jsonl files on the disk: those of the project directories and
\* those outside them.
FilesOnDisk(entries, outside) ==
  {ProjectsDir \o << entries[ik[1]].dirName, IdText(ik[2]) >> :
     ik \in {jk \in (1..Len(entries)) \X DetailSessionIds :
               jk[2] \in entries[jk[1]].sessionIds}}
    \cup outside

\* One loop of findSessionFile over the listing, fs.existsSync looking at
\* the joined path: the first directory, among those of the project when
\* byProject, for which the joined path is a file on the disk.
RECURSIVE FirstExisting(_, _, _, _, _)
FirstExisting(entries, disk, sessionId, projectPath, byProject) ==
  IF entries = << >> THEN None
  ELSE LET dir == Head(entries)
           filePath == PathJoin(ProjectsDir, dir.dirName, sessionId)
       IN  IF /\ byProject => MatchesProject(dir.dirName, projectPath)
              /\ filePath \in disk
             THEN Some([path |-> filePath, dirName |-> dir.dirName])
           ELSE FirstExisting(Tail(entries), disk, sessionId, projectPath,
                              byProject)

\* findSessionFile(sessionId, projectPath) for any string as session id:
\* listing is None when readdirSync throws, disk the files that exist.
FindSessionFileOnDisk(listing, disk, sessionId, projectPath) ==
  IF listing = None THEN None
  ELSE LET byPath == FirstExisting(listing[1], disk, sessionId, projectPath,
                                   TRUE)
       IN  IF byPath # None THEN byPath
           ELSE FirstExisting(listing[1], disk, sessionId, projectPath, FALSE)

\* One getSessionDetail({ sessionId, projectPath }) call with any string
\* as session id, on a disk that may hold files outside the project
\* directories.
GetSessionDetailOf ==
  /\ \E sessionId \in RequestedIds : \E projectPath \in ProjectPaths :
     \E listOk \in BOOLEAN : \E outside \in SUBSET OutsideFiles :
       LET listing == IF listOk THEN Some(projectDirs) ELSE None
           disk == FilesOnDisk(projectDirs, outside)
           filePath == FindSessionFileOnDisk(listing, disk, sessionId,
                                             projectPath)
       IN  found' = Some([sessionId |-> sessionId,
                          projectPath |-> projectPath,
                          listOk |-> listOk,
                          outside |-> outside,
                          filePath |-> filePath,
                          outcome |-> IF filePath = None
                                        THEN "Session not found"
                                        ELSE "parseDetail"])
  /\ UNCHANGED projectDirs
  /\ QuietStats
  /\ UNCHANGED tokVars
  /\ UNCHANGED agentVars
  /\ QuietScan
  /\ UNCHANGED batchVars

\* Project directories filling up, and session details being asked for
\* under any session id.
NextResolve ==
  \/ CreateProjectDir
  \/ CreateSessionLog
  \/ GetSessionDetailOf

SpecResolve == Init /\ [][NextResolve]_vars

(* ------------- agents and skills of parseDetail (session-parser) ------ *)

\* Tool-call ids of the Task dispatches of a session.
TaskIds == {"task1", "task2"}

\* The agent id the progress events of a dispatch carry, and the one the
\* text of its tool result embeds.
ForegroundId(t) == << "fg", t >>

BackgroundId(t) == << "bg", t >>

AgentIds == {ForegroundId(t) : t \in TaskIds} \cup {BackgroundId(t) : t \in TaskIds}

\* A line of the parent log that is not JSON.
MalformedEvent == [type |-> "malformed", toolUseId |-> "none", agentId |-> None]

\* The lines of a parent session log: a Task tool_use, a progress event
\* (parentToolUseID, data.agentId or none), a user message with a
\* tool_result (tool_use_id, text with 'agentId: X' or without), a line
\* that is not JSON.
ParentEvents ==
  {[type |-> "task", toolUseId |-> t, agentId |-> None] : t \in TaskIds}
    \cup {[type |-> "progress", toolUseId |-> t, agentId |-> None] :
            t \in TaskIds}
    \cup {[type |-> "progress", toolUseId |-> t,
           agentId |-> Some(ForegroundId(t))] : t \in TaskIds}
    \cup {[type |-> "result", toolUseId |-> t, agentId |-> None] :
            t \in TaskIds}
    \cup {[type |-> "result", toolUseId |-> t,
           agentId |-> Some(BackgroundId(t))] : t \in TaskIds}
    \cup {MalformedEvent}

\* Names of skills.
SkillNames == {"testing", "uiux"}

\* The Skill tool_use blocks of a sub-agent log: with skill and args, with
\* skill only, with an input that lacks the skill, without input.
LegacyCalls ==
  {[skill |-> Some("testing"), input |-> TRUE, args |-> Some("--coverage"),
    toolUseId |-> "skill1"],
   [skill |-> Some("uiux"), input |-> TRUE, args |-> None,
    toolUseId |-> "skill2"],
   [skill |-> None, input |-> TRUE, args |-> Some("--coverage"),
    toolUseId |-> "skill3"],
   [skill |-> None, input |-> FALSE, args |-> None, toolUseId |-> "skill4"]}

\* The entries of a sub-agent log written at time ts: a user message with a
\* <command-name> marker, an assistant message with a Skill tool_use, a run
\* of count plain assistant messages, a line that is not JSON.
AgentLines(ts) ==
  {[kind |-> "marker", skill |-> Some(n), input |-> FALSE, args |-> None,
    toolUseId |-> "none", count |-> 1, timestamp |-> ts] : n \in SkillNames}
    \cup {[kind |-> "skill", skill |-> c.skill, input |-> c.input,
           args |-> c.args, toolUseId |-> c.toolUseId, count |-> 1,
           timestamp |-> ts] : c \in LegacyCalls}
    \cup {[kind |-> "filler", skill |-> None, input |-> FALSE, args |-> None,
           toolUseId |-> "none", count |-> MaxFiller, timestamp |-> ts]}
    \cup {[kind |-> "malformed", skill |-> None, input |-> FALSE,
           args |-> None, toolUseId |-> "none", count |-> 1,
           timestamp |-> ts]}

\* Injected skills are looked for in the first 20 messages.
InjectedWindow == 20

\* Variant in which every line counts as a message.
CountsEveryLine(line) == TRUE

\* A line that fails JSON.parse is skipped: it is no message.
CountsAsMessage(line) == line.kind # "malformed"

\* Number of messages in the first i entries of a log.
RECURSIVE MessageCount(_, _)
MessageCount(lines, i) ==
  IF i = 0 THEN 0
  ELSE MessageCount(lines, i - 1)
         + (IF CountsAsMessage(lines[i]) THEN lines[i].count ELSE 0)

\* Variant without the limit on the messages looked at.
InWindowAlways(lines, i) == TRUE

\* The entry i of the log is among the first 20 messages.
InWindow(lines, i) == MessageCount(lines, i) <= InjectedWindow

\* The SkillInvocation of a <command-name> marker.
InjectedInvocation(line) ==
  [skill |-> line.skill[1], args |-> None, source |-> "injected",
   toolUseId |-> << "injected", line.skill[1] >>,
   timestamp |-> line.timestamp]

\* Variant that emits an invocation for every Skill tool_use.
LegacyInvocationUnchecked(line) ==
  << [skill |-> IF line.skill = None THEN "undefined" ELSE line.skill[1],
      args |-> line.args, source |-> "invoked",
      toolUseId |-> << "tool", line.toolUseId >>,
      timestamp |-> line.timestamp] >>

\* The SkillInvocation of a Skill tool_use, none when the block has no
\* input or the input has no skill.
LegacyInvocation(line) ==
  IF line.input /\ line.skill # None
    THEN << [skill |-> line.skill[1], args |-> line.args,
             source |-> "invoked",
             toolUseId |-> << "tool", line.toolUseId >>,
             timestamp |-> line.timestamp] >>
  ELSE << >>

\* The injected skills of the entries i.. of a log.
RECURSIVE InjectedFrom(_, _)
InjectedFrom(lines, i) ==
  IF i > Len(lines) THEN << >>
  ELSE (IF lines[i].kind = "marker" /\ InWindow(lines, i)
          THEN << InjectedInvocation(lines[i]) >> ELSE << >>)
         \o InjectedFrom(lines, i + 1)

\* The invoked skills of the entries i.. of a log.
RECURSIVE InvokedFrom(_, _)
InvokedFrom(lines, i) ==
  IF i > Len(lines) THEN << >>
  ELSE (IF lines[i].kind = "skill" THEN LegacyInvocation(lines[i]) ELSE << >>)
         \o InvokedFrom(lines, i + 1)

\* Variant that emits the skills in the order of the lines.
RECURSIVE SkillsInLogOrderFrom(_, _)
SkillsInLogOrderFrom(lines, i) ==
  IF i > Len(lines) THEN << >>
  ELSE (IF lines[i].kind = "marker" /\ InWindow(lines, i)
          THEN << InjectedInvocation(lines[i]) >>
        ELSE IF lines[i].kind = "skill" THEN LegacyInvocation(lines[i])
        ELSE << >>)
         \o SkillsInLogOrderFrom(lines, i + 1)

ParseSubagentSkillsInLogOrder(lines) == SkillsInLogOrderFrom(lines, 1)

\* parseSubagentSkills: the injected skills, then the invoked ones.
ParseSubagentSkills(lines) == InjectedFrom(lines, 1) \o InvokedFrom(lines, 1)

\* The agent ids the events of one type that reference the dispatch t
\* carry.
IdsCarried(lines, type, t) ==
  {lines[i].agentId[1] :
     i \in {j \in 1..Len(lines) : /\ lines[j].type = type
                                /\ lines[j].toolUseId = t
                                /\ lines[j].agentId # None}}

\* Variant in which the first event that carries an id for the dispatch
\* gives it, be it a progress event or a tool result.
ResolveAgentIdFirstSeen(lines, t) ==
  LET carrying == {j \in 1..Len(lines) : /\ lines[j].type \in {"progress", "result"}
                                       /\ lines[j].toolUseId = t
                                       /\ lines[j].agentId # None}
  IN  IF carrying = {} THEN None ELSE lines[Min(carrying)].agentId

\* The agent id of the dispatch t: from a progress event; from the text of
\* a tool result only when no progress event gave one.
ResolveAgentId(lines, t) ==
  IF IdsCarried(lines, "progress", t) # {}
    THEN Some(CHOOSE a \in IdsCarried(lines, "progress", t) : TRUE)
  ELSE IF IdsCarried(lines, "result", t) # {}
    THEN Some(CHOOSE a \in IdsCarried(lines, "result", t) : TRUE)
  ELSE None

\* Variant that gives an empty list when the linked log is not found.
LinkedSkillsOrEmpty(agentId, logs) ==
  IF agentId = None THEN None
  ELSE IF agentId[1] \notin DOMAIN logs THEN Some(<< >>)
  ELSE Some(ParseSubagentSkills(logs[agentId[1]]))

\* The skills of an agent: those of its linked log, absent when the agent
\* id is not resolved or the linked log is not found.
LinkedSkills(agentId, logs) ==
  IF agentId = None THEN None
  ELSE IF agentId[1] \notin DOMAIN logs THEN None
  ELSE Some(ParseSubagentSkills(logs[agentId[1]]))

\* The Agent records of the Task dispatches among the lines i.. of the
\* parent log.
RECURSIVE AgentsFrom(_, _, _)
AgentsFrom(lines, i, logs) ==
  IF i > Len(lines) THEN << >>
  ELSE (IF lines[i].type = "task"
          THEN LET agentId == ResolveAgentId(lines, lines[i].toolUseId)
               IN  << [toolUseId |-> lines[i].toolUseId,
                       agentId |-> agentId,
                       skills |-> LinkedSkills(agentId, logs)] >>
        ELSE << >>)
         \o AgentsFrom(lines, i + 1, logs)

\* parseDetail: the agents of a session.
ParseDetail(lines, logs) == [agents |-> AgentsFrom(lines, 1, logs)]

\* Sub-agent logs as they are found on disk: empty, without skills, with
\* an injected skill.
AgentLogSamples ==
  {<< >>} \cup {<< line >> : line \in {l \in AgentLines(1) :
                                         l.kind \in {"filler", "marker"}}}

\* The tool-call ids dispatched so far.
Dispatched(lines) ==
  {lines[i].toolUseId : i \in {j \in 1..Len(lines) : lines[j].type = "task"}}

\* A line is appended to the session log: a dispatch not made yet, an
\* event of a dispatch made, or a line that is not JSON.
AppendParentEvent ==
  /\ Len(parentLog) < MaxParentEvents
  /\ \E e \in ParentEvents :
       /\ e.type = "task" => e.toolUseId \notin Dispatched(parentLog)
       /\ e.type \in {"progress", "result"} =>
            e.toolUseId \in Dispatched(parentLog)
       /\ parentLog' = Append(parentLog, e)
  /\ detail' = None
  /\ UNCHANGED agentLogs
  /\ QuietStats
  /\ UNCHANGED tokVars
  /\ QuietScan
  /\ UNCHANGED batchVars
  /\ QuietDetail

\* The session starts: its first lines are written.
StartSession ==
  /\ Len(parentLog) < MaxSkillParentEvents
  /\ AppendParentEvent

\* A sub-agent log appears.
CreateAgentLog ==
  /\ Cardinality(DOMAIN agentLogs) < MaxAgentFiles
  /\ \E id \in AgentIds \ DOMAIN agentLogs : \E lines \in AgentLogSamples :
       agentLogs' = Put(agentLogs, id, lines)
  /\ detail' = None
  /\ UNCHANGED parentLog
  /\ QuietStats
  /\ UNCHANGED tokVars
  /\ QuietScan
  /\ UNCHANGED batchVars
  /\ QuietDetail

\* A sub-agent writes an entry to its log.
AppendAgentLine ==
  /\ \E id \in AgentIds :
       /\ id \in DOMAIN agentLogs
            \/ Cardinality(DOMAIN agentLogs) < MaxAgentFiles
       /\ Len(Get(agentLogs, id, << >>)) < MaxAgentLines
       /\ \E line \in AgentLines(Len(Get(agentLogs, id, << >>)) + 1) :
            agentLogs' = Put(agentLogs, id,
                             Append(Get(agentLogs, id, << >>), line))
  /\ detail' = None
  /\ UNCHANGED parentLog
  /\ QuietStats
  /\ UNCHANGED tokVars
  /\ QuietScan
  /\ UNCHANGED batchVars
  /\ QuietDetail

\* One parseDetail call on the session log and its linked logs.
ReadDetail ==
  /\ detail' = Some(ParseDetail(parentLog, agentLogs))
  /\ UNCHANGED << parentLog, agentLogs >>
  /\ QuietStats
  /\ UNCHANGED tokVars
  /\ QuietScan
  /\ UNCHANGED batchVars
  /\ QuietDetail

\* A session with its dispatches, progress events and tool results.
NextAgents ==
  \/ AppendParentEvent
  \/ CreateAgentLog
  \/ ReadDetail

SpecAgents == Init /\ [][NextAgents]_vars

\* A sub-agent log being written.
NextSkills ==
  \/ StartSession
  \/ AppendAgentLine
  \/ ReadDetail

SpecSkills == Init /\ [][NextSkills]_vars

(* ----------------- the readers of the source tree together ------------ *)

\* Number of snapshot files, session files and project directories in the
\* source tree.
SourceSize ==
  (IF statsFile.kind = "missing" THEN 0 ELSE 1)
    + Cardinality(DOMAIN sessions)
    + fileWrites
    + Len(projectDirs)
    + Cardinality({ie \in (1..Len(projectDirs)) \X DetailSessionIds :
                     ie[2] \in projectDirs[ie[1]].sessionIds})

\* The producer of the logs and of the snapshot adds to the source tree.
SourceGrows ==
  /\ SourceSize < MaxSourceSize
  /\ \/ UpstreamWrite
     \/ AddCacheSession
     \/ CreateSessionFile
     \/ CreateProjectDir
     \/ CreateSessionLog

\* The source tree growing while getStats, listSessions, listActiveSessions
\* and getSessionDetail are called in any order.
NextSource ==
  \/ SourceGrows
  \/ GetStats
  \/ ListSessions
  \/ ListActiveSessions
  \/ GetSessionDetail

SpecSource == Init /\ [][NextSource]_vars

(* ------------------- scans interleaved, file by file ------------------ *)

\* The project directories and session ids of the files that are scanned.
ScanDirs == {"-p-a", "-p-b"}

ScanSessionIds == 1..MaxProjectFiles

\* extractProjectName(decodedPath): the basename of the decoded path.
ExtractProjectName(decodedPath) ==
  CASE decodedPath = "/p/a" -> "a"
    [] decodedPath = "/p/b" -> "b"
    [] OTHER -> decodedPath

\* parseSummary(filePath, sessionId, project.decodedPath,
\*              project.projectName, stat.size), when it yields a summary.
ParseSummary(dirName, sessionId) ==
  [sessionId |-> sessionId,
   projectPath |-> DecodeProjectDirName(dirName),
   projectName |-> ExtractProjectName(DecodeProjectDirName(dirName)),
   isActive |-> FALSE]

\* summaries.push({ ...summary, filePath }), for the file of the session
\* in the directory.
Pushed(dirName, sessionId, summary) ==
  Some([dirName |-> dirName, sessionId |-> sessionId,
        record |-> [summary |-> summary,
                    filePath |-> SessionFilePath(dirName, sessionId)]])

\* A session log file is written under a project directory, at the
\* instant of the last write or at a later one; a file written again gets
\* a later modification time.
WriteProjectFile ==
  /\ \E dirName \in ScanDirs, sessionId \in ScanSessionIds, tick \in {0, 1} :
       LET key == << dirName, sessionId >>
       IN  /\ fsClock + tick >= 1
           /\ fsClock + tick <= MaxFsClock
           /\ IF key \in DOMAIN projectFiles
                THEN tick = 1
                ELSE Cardinality(DOMAIN projectFiles) < MaxProjectFiles
           /\ fsClock' = fsClock + tick
           /\ projectFiles' =
                Put(projectFiles, key, [mtimeMs |-> fsClock + tick])
  /\ pushed' = None
  /\ UNCHANGED << scanners, summaryCache >>
  /\ UNCHANGED << files, fileWrites, scanResult, scanObs, listed >>
  /\ QuietStats
  /\ UNCHANGED tokVars
  /\ QuietDetail
  /\ UNCHANGED agentVars
  /\ UNCHANGED batchVars

\* A scan comes to a file in its loop: it takes the stat, and on a cache
\* hit pushes the cached summary with the active flag of now; on a miss it
\* calls parseSummary and awaits it.
StatFile ==
  /\ \E k \in 1..MaxScanners : \E key \in DOMAIN projectFiles :
     \E active \in BOOLEAN :
       LET dirName == key[1]
           sessionId == key[2]
           stat == projectFiles[key]
       IN  /\ scanners[k] = None
           /\ IF SummaryCacheHit(summaryCache, sessionId, stat.mtimeMs)
                THEN /\ pushed' =
                          Pushed(dirName, sessionId,
                                 RefreshActive(summaryCache[sessionId].summary,
                                               active))
                     /\ UNCHANGED scanners
                ELSE /\ pushed' = None
                     /\ scanners' =
                          [scanners EXCEPT ![k] =
                             Some([dirName |-> dirName,
                                   sessionId |-> sessionId,
                                   mtimeMs |-> stat.mtimeMs])]
  /\ UNCHANGED << projectFiles, fsClock, summaryCache >>
  /\ UNCHANGED << files, fileWrites, scanResult, scanObs, listed >>
  /\ QuietStats
  /\ UNCHANGED tokVars
  /\ QuietDetail
  /\ UNCHANGED agentVars
  /\ UNCHANGED batchVars

\* parseSummary settles for a scan: with a summary, which is stored in the
\* cache under the modification time of the stat and pushed, or with
\* nothing; the scan goes on with its loop.
SettleSummary ==
  /\ \E k \in 1..MaxScanners : \E parsed, active \in BOOLEAN :
       /\ scanners[k] # None
       /\ LET at == scanners[k][1]
              summary == RefreshActive(ParseSummary(at.dirName, at.sessionId),
                                       active)
          IN  IF parsed
                THEN /\ summaryCache' =
                          Put(summaryCache, at.sessionId,
                              [mtimeMs |-> at.mtimeMs, summary |-> summary])
                     /\ pushed' = Pushed(at.dirName, at.sessionId, summary)
                ELSE /\ pushed' = None
                     /\ UNCHANGED summaryCache
       /\ scanners' = [scanners EXCEPT ![k] = None]
  /\ UNCHANGED << projectFiles, fsClock >>
  /\ UNCHANGED << files, fileWrites, scanResult, scanObs, listed >>
  /\ QuietStats
  /\ UNCHANGED tokVars
  /\ QuietDetail
  /\ UNCHANGED agentVars
  /\ UNCHANGED batchVars

\* Scans running at once over project directories whose files are being
\* written.
NextScanners ==
  \/ WriteProjectFile
  \/ StatFile
  \/ SettleSummary

SpecScanners == Init /\ [][NextScanners]_vars

(* ======================= properties of getStats ======================= *)

\* A step of GetStats: every other step clears obs.
GetStatsStep == obs' # NoObs

\* The tiers delivered a snapshot to the call that just returned; the
\* memory tier then holds it.
TierHit(o) == o.tier \in {"memory", "disk", "source"}

DateOfSession(s) ==
  IF s.lastActiveAt # NoTime THEN s.lastActiveAt \div DayMs
  ELSE s.startedAt \div DayMs

\* The sessions dated strictly after the date of a snapshot.
DeltaOf(snap) ==
  {id \in DOMAIN sessions :
     DateOfSession(sessions[id]) > snap.lastComputedDate \div DayMs}

\* Turn count of a session, or its summary message count when its detail
\* parse fails.
TurnsOrSummary(id) ==
  IF sessions[id].detail # None THEN Len(sessions[id].detail[1].turns)
  ELSE sessions[id].messageCount

AllDates == 0..MaxDay

ActivityAt(stats, d) ==
  IF \E i \in 1..Len(stats.dailyActivity) : stats.dailyActivity[i].date = d
    THEN LET i == CHOOSE j \in 1..Len(stats.dailyActivity) :
                    stats.dailyActivity[j].date = d
         IN  [messageCount |-> stats.dailyActivity[i].messageCount,
              sessionCount |-> stats.dailyActivity[i].sessionCount,
              toolCallCount |-> stats.dailyActivity[i].toolCallCount]
    ELSE ZeroActivity

TokensAt(stats, d, m) ==
  IF \E i \in 1..Len(stats.dailyModelTokens) :
       stats.dailyModelTokens[i].date = d
    THEN LET i == CHOOSE j \in 1..Len(stats.dailyModelTokens) :
                    stats.dailyModelTokens[j].date = d
         IN  Get(stats.dailyModelTokens[i].tokensByModel, m, 0)
    ELSE 0

TotalToolCalls(stats) ==
  SumValues([i \in 1..Len(stats.dailyActivity) |->
               stats.dailyActivity[i].toolCallCount])

UsageOf(stats, m) == Get(stats.modelUsage, m, ZeroUsage)

\* Some order in which a scan may return all sessions.
AnyOrder(ss) == CHOOSE p \in ScanOrders(ss) : TRUE

\* The session files without those whose detail parse fails.
Parseable(ss) ==
  [id \in {i \in DOMAIN ss : ss[i].detail # None} |-> ss[id]]

\* C1: the aggregate enrichment returns reconciles with full computation
\* over the same sessions: totalSessions and totalMessages are equal, and
\* per-model token totals and tool-call counts are equal when every detail
\* parse of the delta succeeds. The snapshot was computed by the upstream
\* job and counts every session that had started by then; the sessions it
\* counts may have become active again since.
C1_EnrichmentReconciles ==
  (/\ obs.path = "enriched"
   /\ cachedStats[1].data.totalSessions =
        Cardinality({id \in DOMAIN sessions :
                       sessions[id].startedAt
                         <= cachedStats[1].data.lastComputedDate}))
    => LET snap == cachedStats[1].data
           res == result[1]
           fresh == ComputeFromSummaries(
                      Summaries(sessions, AnyOrder(sessions)), now)
       IN  /\ res.totalSessions = fresh.totalSessions
           /\ res.totalMessages = fresh.totalMessages
           /\ (\A id \in DeltaOf(snap) : sessions[id].detail # None)
                => /\ \A m \in Models : UsageOf(res, m) = UsageOf(fresh, m)
                   /\ TotalToolCalls(res) = TotalToolCalls(fresh)

\* C2: the enrichment delta is exactly the sessions dated strictly after
\* the snapshot's date: exactly their details are parsed, totalSessions
\* grows by their number, each later day's sessionCount grows by the
\* number of delta sessions of that day, and no bucket of a day on or
\* before the snapshot's date changes.
C2_DeltaStrictlyAfterCutoff ==
  obs.path = "enriched"
    => LET snap == cachedStats[1].data
           res == result[1]
           cutoff == snap.lastComputedDate \div DayMs
           delta == DeltaOf(snap)
       IN  /\ obs.parsed = delta
           /\ res.totalSessions = snap.totalSessions + Cardinality(delta)
           /\ \A d \in AllDates :
                IF d <= cutoff
                  THEN /\ ActivityAt(res, d) = ActivityAt(snap, d)
                       /\ \A m \in Models :
                            TokensAt(res, d, m) = TokensAt(snap, d, m)
                  ELSE ActivityAt(res, d).sessionCount =
                         ActivityAt(snap, d).sessionCount
                           + Cardinality({id \in delta :
                                            DateOfSession(sessions[id]) = d})
           /\ \A m \in Models :
                UsageOf(res, m).inputTokens - UsageOf(snap, m).inputTokens =
                  SumValues([id \in {i \in delta : sessions[i].detail # None}
                               |-> Get(sessions[id].detail[1].tokensByModel,
                                       m, ZeroUsage).inputTokens])

\* C2 witness: an enrichment with a session on or before the snapshot's
\* date and a session after it.
C2_Witness ==
  /\ obs.path = "enriched"
  /\ DeltaOf(cachedStats[1].data) # {}
  /\ DOMAIN sessions \ DeltaOf(cachedStats[1].data) # {}

\* C9: a session whose detail parse fails is still counted: compared with
\* the same computation over the sessions without the failing ones, the
\* result has one more session per failing session in totalSessions and in
\* its date's sessionCount, and that session's summary messageCount more in
\* its date's messageCount and in totalMessages; toolCallCount, every
\* dailyModelTokens value and modelUsage are the same. This holds for
\* enrichment and for full computation.
C9_FailedParseCountsSummaryOnly ==
  (obs.path \in {"enriched", "computed"})
    => LET res == result[1]
           ok == Parseable(sessions)
           counted == IF obs.path = "enriched"
                        THEN DeltaOf(cachedStats[1].data)
                        ELSE DOMAIN sessions
           failed == {id \in counted : sessions[id].detail = None}
           ref == IF obs.path = "enriched"
                    THEN MergeRecentSessions(cachedStats[1].data,
                                             Summaries(ok, AnyOrder(ok)))
                    ELSE ComputeFromSummaries(Summaries(ok, AnyOrder(ok)),
                                              now)
           onDay(d) == {id \in failed : DateOfSession(sessions[id]) = d}
           summaryMessages(ids) ==
             SumValues([id \in ids |-> sessions[id].messageCount])
       IN  /\ res.totalSessions = ref.totalSessions + Cardinality(failed)
           /\ res.totalMessages = ref.totalMessages + summaryMessages(failed)
           /\ \A d \in AllDates :
                /\ ActivityAt(res, d).sessionCount =
                     ActivityAt(ref, d).sessionCount + Cardinality(onDay(d))
                /\ ActivityAt(res, d).messageCount =
                     ActivityAt(ref, d).messageCount + summaryMessages(onDay(d))
                /\ ActivityAt(res, d).toolCallCount =
                     ActivityAt(ref, d).toolCallCount
                /\ \A m \in Models : TokensAt(res, d, m) = TokensAt(ref, d, m)
           /\ res.modelUsage = ref.modelUsage

\* C9 witness: an enrichment whose delta holds a session whose detail
\* parse failed and one whose parse succeeded.
C9_Witness ==
  /\ obs.path = "enriched"
  /\ \E id \in DeltaOf(cachedStats[1].data) : sessions[id].detail = None
  /\ \E id \in DeltaOf(cachedStats[1].data) : sessions[id].detail # None

\* C10: the enriched totals are the snapshot's totals plus the delta:
\* totalSessions grows by the number of delta sessions, totalMessages by
\* each delta session's turn count, or its summary message count when its
\* detail parse failed.
C10_EnrichedTotals ==
  obs.path = "enriched"
    => LET snap == cachedStats[1].data
           res == result[1]
           delta == DeltaOf(snap)
       IN  /\ res.totalSessions = snap.totalSessions + Cardinality(delta)
           /\ res.totalMessages =
                snap.totalMessages
                  + SumValues([id \in delta |-> TurnsOrSummary(id)])

\* C10 witness: an enrichment over a delta of two sessions, one parsed and
\* one not.
C10_Witness ==
  /\ obs.path = "enriched"
  /\ Cardinality(DeltaOf(cachedStats[1].data)) >= 2
  /\ \E id \in DeltaOf(cachedStats[1].data) : sessions[id].detail = None
  /\ \E id \in DeltaOf(cachedStats[1].data) :
       /\ sessions[id].detail # None
       /\ Len(sessions[id].detail[1].turns) # sessions[id].messageCount

(* =================== properties of token accumulation ================= *)

\* The lines of a log that are the first to carry their request id.
FirstOfRequest(l, i) == \A j \in 1..(i - 1) : l[j].requestId # l[i].requestId

RECURSIVE SumUsage(_, _)
SumUsage(l, idx) ==
  IF idx = {} THEN ZeroUsage
  ELSE LET i == CHOOSE x \in idx : TRUE
       IN  AddUsage(l[i].usage, SumUsage(l, idx \ {i}))

\* Sum of the usage of the first line of each distinct request id, over the
\* lines of model m.
FirstSeenUsage(l, m) ==
  SumUsage(l, {i \in 1..Len(l) : FirstOfRequest(l, i) /\ l[i].model = m})

DedupExample ==
  LET same == [inputTokens |-> 5000, outputTokens |-> 1000,
               cacheReadInputTokens |-> 2000,
               cacheCreationInputTokens |-> 500]
      different == [inputTokens |-> 8000, outputTokens |-> 2000,
                    cacheReadInputTokens |-> 3000,
                    cacheCreationInputTokens |-> 1000]
  IN  << [requestId |-> "req-same", model |-> "m", usage |-> same],
         [requestId |-> "req-same", model |-> "m", usage |-> same],
         [requestId |-> "req-different", model |-> "m", usage |-> different] >>

\* C3: for every log read so far, parent or linked sub-agent, a model's
\* accumulated usage is the sum of the usage of the first line seen for
\* each distinct request id; lines with a request id already seen in that
\* log add nothing (req-same 5000/1000 twice and req-different 8000/2000
\* give 13000/3000), and the request ids seen in the parent log do not
\* count as seen in the sub-agent log.
C3_TokenDedupByRequestId ==
  /\ \A m \in Models :
       Get(tokensByModel, m, ZeroUsage) = FirstSeenUsage(log, m)
  /\ seenRequestIds = {log[i].requestId : i \in 1..Len(log)}
  /\ log = DedupExample
       => /\ tokensByModel["m"].inputTokens = 13000
          /\ tokensByModel["m"].outputTokens = 3000

\* C3 witness: the sub-agent log of the example has been read, after a
\* parent log in which both request ids had been seen.
C3_Witness ==
  /\ stream = "agent"
  /\ log = DedupExample
  /\ parentTokens # None
  /\ \E m \in Models :
       /\ m \in DOMAIN parentTokens[1]
       /\ parentTokens[1][m].inputTokens = 13000

(* ================== properties of the cache tiers ===================== *)

\* The memory tier holds an entry for the snapshot file's current
\* modification time.
MemoryHolds ==
  /\ statsFile.kind # "missing"
  /\ cachedStats # None
  /\ cachedStats[1].mtimeMs = statsFile.mtimeMs

\* The disk tier holds an entry for it.
DiskHolds ==
  /\ statsFile.kind # "missing"
  /\ diskCache # None
  /\ diskCache[1].mtimeMs = statsFile.mtimeMs

\* C4: the tiers are consulted in the order memory, disk, source and the
\* first hit wins: the disk tier is read only when the memory tier holds
\* no entry for the file's modification time, the file is read only when
\* both miss; a disk or source hit leaves the memory tier holding the
\* snapshot under that modification time, and a getStats that follows with
\* the modification time unchanged is served from memory without reading
\* the disk tier or the file.
C4_TierOrder ==
  [][GetStatsStep =>
       /\ obs'.diskRead => ~MemoryHolds
       /\ obs'.sourceRead => (~MemoryHolds /\ ~DiskHolds)
       /\ (obs'.tier = "memory") <=> MemoryHolds
       /\ (obs'.tier = "disk") <=> (~MemoryHolds /\ DiskHolds)
       /\ (obs'.tier = "source")
            <=> (~MemoryHolds /\ ~DiskHolds /\ statsFile.kind = "valid")
       /\ obs'.tier = "memory" => (~obs'.diskRead /\ ~obs'.sourceRead)
       /\ obs'.tier = "disk" =>
            /\ ~obs'.sourceRead
            /\ cachedStats' = Some([mtimeMs |-> statsFile.mtimeMs,
                                    data |-> diskCache[1].data])
       /\ obs'.tier = "source" =>
            cachedStats' = Some([mtimeMs |-> statsFile.mtimeMs,
                                 data |-> statsFile.data[1]])
       /\ obs.tier \in {"disk", "source"} =>
            /\ obs'.tier = "memory"
            /\ cachedStats' = cachedStats
     ]_vars

\* C4 witness: a getStats served by the disk tier, which left the memory
\* tier holding the snapshot.
C4_Witness ==
  /\ obs.tier = "disk"
  /\ obs.diskRead
  /\ cachedStats = diskCache
  /\ result # None

\* The snapshot a getStats call obtained from the tiers.
Snapshot(cached) == cached[1].data

StaleAt(snap, clock) ==
  ExtractDateString(snap.lastComputedDate) < ExtractDateString(clock)

\* An enrichment completed for the file's current modification time less
\* than 60 seconds ago.
EnrichmentFresh ==
  /\ lastEnrichment # None
  /\ lastEnrichment[1].mtimeMs = statsFile.mtimeMs
  /\ now - lastEnrichment[1].at < 60000

\* C5: a getStats that finds the snapshot stale returns the result of the
\* last enrichment, without scanning or parsing, when that enrichment was
\* for the same modification time and completed less than 60 seconds ago;
\* when the modification time differs or 60 seconds or more have elapsed
\* it does not return the cached result but scans again.
C5_MergeCacheWindow ==
  [][(GetStatsStep /\ TierHit(obs') /\ StaleAt(Snapshot(cachedStats'), now))
       => IF EnrichmentFresh
            THEN /\ result' = Some(lastEnrichment[1].data)
                 /\ obs'.path = "mergeHit"
                 /\ ~obs'.scanned
                 /\ obs'.parsed = {}
                 /\ mergedCache' = mergedCache
            ELSE /\ obs'.path \in {"enriched", "enrichFailed"}
                 /\ obs'.scanned
     ]_vars

\* C5 witness: the cached result returned 59999 ms after the enrichment.
C5_Witness ==
  /\ obs.path = "mergeHit"
  /\ now - mergedCache[1].mergedAt = MERGE_STALENESS_MS - 1
  /\ result = Some(mergedCache[1].data)

\* C6: when the snapshot's date is not earlier than today, getStats
\* returns the snapshot as it is, scans no session, parses no detail and
\* neither reads nor writes the merge cache.
C6_UpToDateAsIs ==
  [][(GetStatsStep /\ TierHit(obs') /\ ~StaleAt(Snapshot(cachedStats'), now))
       => /\ result' = Some(Snapshot(cachedStats'))
          /\ obs'.path = "asis"
          /\ ~obs'.scanned
          /\ obs'.parsed = {}
          /\ ~obs'.mergeRead
          /\ ~obs'.mergeWrite
          /\ mergedCache' = mergedCache
     ]_vars

\* C6 witness: an up-to-date snapshot returned as-is while the merge cache
\* holds an earlier enrichment and a session exists.
C6_Witness ==
  /\ obs.path = "asis"
  /\ mergedCache # None
  /\ DOMAIN sessions # {}
  /\ result = Some(Snapshot(cachedStats))

\* C7: a snapshot file that is missing, unreadable, not JSON or fails the
\* schema is not fatal: getStats does not throw, it returns the full
\* computation over all scanned sessions (nothing when the scan itself
\* fails), and the memory and disk tiers keep what they held, which is no
\* entry for the bad file.
C7_BadSnapshotNotFatal ==
  [][(GetStatsStep /\ statsFile.kind # "valid")
       => /\ ~obs'.threw
          /\ obs'.path \in {"computed", "computeFailed"}
          /\ obs'.path = "computed" =>
               /\ \E p \in ScanOrders(sessions) :
                    result' = Some(ComputeFromSummaries(
                                     Summaries(sessions, p), now))
               /\ obs'.parsed = DOMAIN sessions
          /\ obs'.path = "computeFailed" => result' = None
          /\ cachedStats' = cachedStats
          /\ diskCache' = diskCache
          /\ mergedCache' = mergedCache
          /\ statsFile.kind # "missing" => (~MemoryHolds' /\ ~DiskHolds')
     ]_vars

\* C7 witness: the full computation returned for a snapshot file that is
\* present but bad, with a session to count and tiers holding an earlier
\* snapshot.
C7_Witness ==
  /\ obs.tier = "invalid"
  /\ obs.path = "computed"
  /\ result # None
  /\ result[1].totalSessions = 1
  /\ cachedStats # None
  /\ diskCache # None

\* C8: when enriching a stale snapshot fails, getStats returns the
\* snapshot itself; whatever happens, a call that obtained a snapshot
\* returns the snapshot, a cached enrichment or a complete enrichment,
\* never nothing and never a partly folded aggregate.
C8_EnrichFailureKeepsSnapshot ==
  [][(GetStatsStep /\ TierHit(obs'))
       => /\ ~obs'.threw
          /\ result' # None
          /\ obs'.path = "enrichFailed" =>
               /\ result' = Some(Snapshot(cachedStats'))
               /\ mergedCache' = mergedCache
          /\ \/ result' = Some(Snapshot(cachedStats'))
             \/ obs'.path = "mergeHit" /\ result' = Some(mergedCache[1].data)
             \/ \E p \in ScanOrders(sessions) :
                  result' = Some(MergeRecentSessions(Snapshot(cachedStats'),
                                                     Summaries(sessions, p)))
     ]_vars

\* C8 witness: the scan failed while a stale snapshot with a session to
\* merge was being enriched, and the snapshot came back.
C8_Witness ==
  /\ obs.path = "enrichFailed"
  /\ DeltaOf(Snapshot(cachedStats)) # {}
  /\ result = Some(Snapshot(cachedStats))

(* ================= properties of the aggregate fold =================== *)

\* Sum of the four token categories of a usage.
FourCategories(u) ==
  u.inputTokens + u.outputTokens
    + u.cacheReadInputTokens + u.cacheCreationInputTokens

\* The sessions counted by the call that just returned: the delta of an
\* enrichment, every session of a full computation.
Counted ==
  IF obs.path = "enriched" THEN DeltaOf(Snapshot(cachedStats))
  ELSE DOMAIN sessions

\* The per-day per-model totals the call started from.
TokensBefore(d, m) ==
  IF obs.path = "enriched" THEN TokensAt(Snapshot(cachedStats), d, m) ELSE 0

C12_EnrichedDayHasModelTokens ==
  obs.path = "enriched"
    => LET snap == Snapshot(cachedStats)
           res == result[1]
           delta == DeltaOf(snap)
           today == ExtractDateString(now)
           entryOf(d) ==
             {i \in 1..Len(res.dailyModelTokens) :
                res.dailyModelTokens[i].date = d}
       IN  /\ \A id \in delta :
                sessions[id].detail # None =>
                  \A m \in DOMAIN sessions[id].detail[1].tokensByModel :
                    LET u == sessions[id].detail[1].tokensByModel[m]
                        d == DateOfSession(sessions[id])
                    IN  (u.inputTokens > 0 \/ u.outputTokens > 0)
                          => /\ Cardinality(entryOf(d)) = 1
                             /\ \A i \in entryOf(d) :
                                  /\ m \in DOMAIN
                                       res.dailyModelTokens[i].tokensByModel
                                  /\ res.dailyModelTokens[i].tokensByModel[m]
                                       > 0
           /\ (/\ ExtractDateString(snap.lastComputedDate) = today - 2
               /\ Cardinality(delta) = 1
               /\ \A id \in delta :
                    /\ DateOfSession(sessions[id]) = today - 1
                    /\ sessions[id].detail # None
                    /\ DOMAIN sessions[id].detail[1].tokensByModel = {"m"}
                    /\ sessions[id].detail[1].tokensByModel["m"].inputTokens
                         = 1000
                    /\ sessions[id].detail[1].tokensByModel["m"].outputTokens
                         = 200)
                => /\ TokensAt(res, today - 1, "m") = 1200
                   /\ res.totalSessions = snap.totalSessions + 1

\* C12 witness: the snapshot is two days old and the one delta session was
\* active yesterday with 1000 input / 200 output tokens for m.
C12_Witness ==
  /\ obs.path = "enriched"
  /\ ExtractDateString(Snapshot(cachedStats).lastComputedDate)
       = ExtractDateString(now) - 2
  /\ Cardinality(DeltaOf(Snapshot(cachedStats))) = 1
  /\ \A id \in DeltaOf(Snapshot(cachedStats)) :
       /\ DateOfSession(sessions[id]) = ExtractDateString(now) - 1
       /\ sessions[id].detail # None
       /\ "m" \in DOMAIN sessions[id].detail[1].tokensByModel
       /\ sessions[id].detail[1].tokensByModel["m"].inputTokens = 1000
  /\ TokensAt(result[1], ExtractDateString(now) - 1, "m") = 1200

Max(S) == CHOOSE x \in S : \A y \in S : x >= y

\* C13: the longest-session record after an enrichment has the maximum of
\* the snapshot's longest duration and the delta sessions' durations; it is
\* the snapshot's record unless a delta session's duration strictly exceeds
\* the snapshot's, and then it is the record of a delta session of that
\* maximal duration.
C13_LongestSession ==
  obs.path = "enriched"
    => LET snap == Snapshot(cachedStats)
           res == result[1]
           delta == DeltaOf(snap)
           durations == {sessions[id].durationMs : id \in delta}
                          \cup {snap.longestSession.duration}
       IN  /\ res.longestSession.duration = Max(durations)
           /\ IF Max(durations) = snap.longestSession.duration
                THEN res.longestSession = snap.longestSession
                ELSE \E id \in delta :
                       /\ res.longestSession.sessionId = id
                       /\ sessions[id].durationMs = Max(durations)
                       /\ res.longestSession.messageCount = TurnsOrSummary(id)
                       /\ res.longestSession.timestamp =
                            LastActiveOrStarted(sessions[id])

\* C13 witness: a delta session ties with the snapshot's longest session,
\* which has a positive duration, and the snapshot's record is kept.
C13_Witness ==
  /\ obs.path = "enriched"
  /\ Snapshot(cachedStats).longestSession.duration > 0
  /\ \E id \in DeltaOf(Snapshot(cachedStats)) :
       /\ sessions[id].durationMs =
            Snapshot(cachedStats).longestSession.duration
       /\ id # Snapshot(cachedStats).longestSession.sessionId
  /\ result[1].longestSession = Snapshot(cachedStats).longestSession

(* ==================== properties of the session scan ================== *)

\* A step of Scan: every other step of the scanner's environment clears
\* scanObs.
ScanStep == scanObs'.ran

\* The records a scan returned for a session id.
RecordsOf(returned, id) ==
  {i \in 1..Len(returned) : returned[i].sessionId = id}

\* A summary without its active flag.
Content(summary) ==
  [lastActiveAt |-> summary.lastActiveAt,
   messageCount |-> summary.messageCount]

\* The summary cache holds an entry for the file's current modification
\* time.
CacheCurrent(id) ==
  /\ id \in DOMAIN summaryCache
  /\ summaryCache[id].mtimeMs = files[id].mtimeMs

\* C17: during a scan the summary parser is invoked for a session whose
\* stat succeeds exactly when the summary cache holds no entry for its id
\* with the file's current modification time; on a hit the cached summary
\* is returned and the entry kept; on a miss (as after a change of content
\* and modification time) the file is parsed again, and the new summary is
\* returned and stored under the new modification time.
C17_SummaryCacheByMtime ==
  [][ScanStep =>
       \A id \in DOMAIN files :
         LET statOk == id \notin scanObs'.statFailed
         IN  /\ (id \in scanObs'.parsedIds) <=> (statOk /\ ~CacheCurrent(id))
             /\ (statOk /\ CacheCurrent(id)) =>
                  /\ summaryCache'[id] = summaryCache[id]
                  /\ \A i \in RecordsOf(scanResult'[1], id) :
                       Content(scanResult'[1][i].summary) =
                         Content(summaryCache[id].summary)
             /\ (statOk /\ ~CacheCurrent(id) /\ files[id].content # None) =>
                  /\ summaryCache'[id].mtimeMs = files[id].mtimeMs
                  /\ Content(summaryCache'[id].summary) =
                       Content(files[id].content[1])
                  /\ \A i \in RecordsOf(scanResult'[1], id) :
                       Content(scanResult'[1][i].summary) =
                         Content(files[id].content[1])
     ]_vars

\* C17 witness: a scan parsed again a file whose cache entry was for an
\* earlier modification time and served another file from the cache.
C17_Witness ==
  /\ scanObs.ran
  /\ scanObs.hits # {}
  /\ \E id \in scanObs.replaced :
       /\ files[id].content # None
       /\ summaryCache[id].mtimeMs = files[id].mtimeMs
       /\ summaryCache[id].summary.messageCount = files[id].mtimeMs

\* C18: the isActive flag of every record a scan returns is the value the
\* active-session detector gave during that scan, for records served from
\* the summary cache as for freshly parsed ones.
C18_ActiveFlagRefreshed ==
  [][ScanStep =>
       \A i \in 1..Len(scanResult'[1]) :
         scanResult'[1][i].summary.isActive =
           scanObs'.active[scanResult'[1][i].sessionId]
     ]_vars

\* C18 witness: a record served from the cache whose cached flag differs
\* from what the detector gave during the scan.
C18_Witness ==
  /\ scanObs.ran
  /\ \E id \in scanObs.hits :
       /\ summaryCache[id].summary.isActive # scanObs.active[id]
       /\ \E i \in RecordsOf(scanResult[1], id) :
            scanResult[1][i].summary.isActive = scanObs.active[id]

\* C19: the records a scan returns are sorted by lastActiveAt, newest
\* first.
C19_SortedNewestFirst ==
  scanResult # None =>
    \A i, j \in 1..Len(scanResult[1]) :
      i < j => scanResult[1][i].summary.lastActiveAt
                 >= scanResult[1][j].summary.lastActiveAt

\* C19 witness: a scan enumerated an older session before a newer one, one
\* of them served from the cache and the other freshly parsed.
C19_Witness ==
  /\ scanObs.ran
  /\ Len(scanResult[1]) = 2
  /\ scanResult[1][1].summary.lastActiveAt
       > scanResult[1][2].summary.lastActiveAt
  /\ scanObs.order = << scanResult[1][2].sessionId,
                        scanResult[1][1].sessionId >>
  /\ scanObs.hits # {}
  /\ scanObs.parsedIds # {}

\* The sessions a scan leaves out: their stat failed, or the summary
\* parser was invoked and yielded nothing.
Omitted(o) ==
  o.statFailed \cup {id \in o.parsedIds : files[id].content = None}

Public(record) == [sessionId |-> record.sessionId, summary |-> record.summary]

\* The positions of the active records of a scan result.
ActivePositions(results) ==
  {i \in 1..Len(results) : results[i].summary.isActive}

\* C21: no record returned by scanAllSessions or getActiveSessions has a
\* filePath field; every record returned by scanAllSessionsWithPaths has
\* one, the absolute path of the file of its session; apart from that
\* field scanAllSessions returns the records of the scan in the same
\* order, and getActiveSessions the active ones among them in the same
\* order.
C21_FilePathStripped ==
  /\ listed # None =>
       LET returned == listed[1].returned
           internal == listed[1].internal
       IN  /\ \A i \in 1..Len(returned) :
                "filePath" \notin DOMAIN returned[i]
           /\ \A i \in 1..Len(internal) :
                internal[i].filePath = FilePath(internal[i].sessionId)
           /\ listed[1].api = "scanAllSessions" =>
                /\ Len(returned) = Len(internal)
                /\ \A i \in 1..Len(internal) :
                     returned[i] = Public(internal[i])
           /\ listed[1].api = "getActiveSessions" =>
                /\ Len(returned) = Cardinality(ActivePositions(internal))
                /\ \A i \in 1..Len(returned) : returned[i].summary.isActive
                /\ \A i, j \in ActivePositions(internal) :
                     i < j =>
                       \E k, l \in 1..Len(returned) :
                         /\ k < l
                         /\ returned[k] = Public(internal[i])
                         /\ returned[l] = Public(internal[j])
                /\ \A i \in ActivePositions(internal) :
                     \E k \in 1..Len(returned) :
                       returned[k] = Public(internal[i])
  /\ scanResult # None =>
       \A i \in 1..Len(scanResult[1]) :
         /\ "filePath" \in DOMAIN scanResult[1][i]
         /\ scanResult[1][i].filePath = FilePath(scanResult[1][i].sessionId)

\* C21 witness: scanAllSessions returned two records, without file paths,
\* for a scan whose records carry them.
C21_Witness ==
  /\ listed # None
  /\ listed[1].api = "scanAllSessions"
  /\ Len(listed[1].returned) = 2
  /\ \A i \in 1..2 :
       /\ "filePath" \notin DOMAIN listed[1].returned[i]
       /\ "filePath" \in DOMAIN listed[1].internal[i]

(* ================ properties of batched detail parsing ================ *)

\* The batch a session belongs to: batches of 10, in order.
BatchNumber(id) == (id - 1) \div 10

\* C14: within one invocation over n sessions the sessions are taken in
\* order in batches of 10: the parses started are those of the first
\* batches, at most 10 are in flight, and a parse of a later batch has
\* started only when every parse of the earlier batches has settled.
C14_BatchesOfTen ==
  LET rq == req[1]
      settled == rq.ok \cup rq.failed
  IN  /\ Cardinality(InFlight(rq)) <= 10
      /\ \E k \in 0..(rq.n \div 10 + 1) :
           rq.started = {id \in 1..rq.n : BatchNumber(id) < k}
      /\ \A a \in rq.started : \A b \in 1..rq.n :
           BatchNumber(b) < BatchNumber(a) => b \in settled
      /\ InFlight(rq) # {} =>
           \A a, b \in InFlight(rq) : BatchNumber(a) = BatchNumber(b)

\* C14 witness: the second batch is in flight after a first batch of 10 in
\* which some parses failed.
C14_Witness ==
  /\ 11 \in InFlight(req[1])
  /\ req[1].failed # {}
  /\ Cardinality(req[1].ok \cup req[1].failed) = 10

\* C15: a failing parse neither fails the invocation nor stops its
\* siblings or the later batches: the invocation never rejects, every
\* invocation that has begun returns, and what it returns maps exactly the
\* sessions whose parse succeeded to their details, whatever parses fail.
C15_FailuresIsolated ==
  /\ [](/\ req[1].phase # "rejected"
        /\ req[1].phase = "returned" =>
             /\ req[1].ok \cup req[1].failed = 1..req[1].n
             /\ DOMAIN req[1].results = req[1].ok
             /\ \A id \in req[1].ok : req[1].results[id] = DetailOf(id))
  /\ (req[1].phase = "parsing") ~> (req[1].phase = "returned")

\* C15 witness: an invocation returned after parses failed in its first
\* batch, next to parses that succeeded, and parses succeeded in its
\* second batch.
C15_Witness ==
  /\ req[1].phase = "returned"
  /\ \E id \in req[1].failed : BatchNumber(id) = 0
  /\ \E id \in req[1].ok : BatchNumber(id) = 0
  /\ \E id \in req[1].ok : BatchNumber(id) = 1
  /\ \E id \in req[1].failed : BatchNumber(id) = 1

\* The parses in flight on behalf of the stats engine.
TotalInFlight ==
  SumValues([r \in Requests |-> Cardinality(InFlight(req[r]))])

\* C16: the number of detail parses in flight on behalf of the stats
\* engine never exceeds 10, also when several getStats requests are served
\* concurrently while the merge cache is cold.
C16_GlobalParseBound == TotalInFlight <= 10

(* ===================== properties of persistence ====================== *)

\* The snapshots a getStats call may put in the memory tier: the validated
\* content of the snapshot file, or what the disk tier holds for the
\* file's modification time.
SnapshotsRead ==
  (IF statsFile.kind = "valid" THEN {statsFile.data[1]} ELSE {})
    \cup (IF DiskHolds THEN {diskCache[1].data} ELSE {})

\* C23: an enriched result is never persisted. A getStats call leaves the
\* snapshot file as it is; it writes the disk tier only with the validated
\* content of the snapshot file, and the memory tier only with that
\* content or with what the disk tier holds for the file's modification
\* time; after the call a tier that holds an entry for a valid file's
\* modification time holds the file's content; an enriched result is put
\* in the merge cache.
C23_EnrichedNeverPersisted ==
  [][GetStatsStep =>
       /\ statsFile' = statsFile
       /\ diskCache' # diskCache =>
            /\ statsFile.kind = "valid"
            /\ diskCache' = Some([mtimeMs |-> statsFile.mtimeMs,
                                  data |-> statsFile.data[1]])
       /\ cachedStats' # cachedStats =>
            /\ cachedStats' # None
            /\ cachedStats'[1].mtimeMs = statsFile.mtimeMs
            /\ cachedStats'[1].data \in SnapshotsRead
       /\ (statsFile.kind = "valid" /\ cachedStats' # None
             /\ cachedStats'[1].mtimeMs = statsFile.mtimeMs) =>
            cachedStats'[1].data = statsFile.data[1]
       /\ (statsFile.kind = "valid" /\ diskCache' # None
             /\ diskCache'[1].mtimeMs = statsFile.mtimeMs) =>
            diskCache'[1].data = statsFile.data[1]
       /\ obs'.path = "enriched" =>
            /\ mergedCache' # None
            /\ mergedCache'[1].data = result'[1]
     ]_vars

\* C23 witness: a getStats call returned an enriched result that differs
\* from the snapshot; the memory and disk tiers hold the snapshot as the
\* file has it and the merge cache holds the enriched result.
C23_Witness ==
  /\ obs.path = "enriched"
  /\ statsFile.kind = "valid"
  /\ result # None
  /\ result[1] # statsFile.data[1]
  /\ cachedStats # None
  /\ cachedStats[1].data = statsFile.data[1]
  /\ diskCache # None
  /\ diskCache[1].data = statsFile.data[1]
  /\ mergedCache # None
  /\ mergedCache[1].data = result[1]

\* A step of scanAllSessions or getActiveSessions.
ListStep == listed' # None

\* A step of getSessionDetail.
DetailStep == found' # None

\* The source log root: the snapshot file, the session logs as the stats
\* engine, the scanner and session-detail lookup see them.
SourceTree == << statsFile, sessions, files, projectDirs >>

\* C22: no getStats, scan, listSessions, listActiveSessions or
\* getSessionDetail call writes, renames or deletes anything under the
\* source log root: the snapshot file, the session logs and the project
\* directories are after the call what they were before it.
C22_SourceTreeUnchanged ==
  [][(GetStatsStep \/ ScanStep \/ ListStep \/ DetailStep)
       => SourceTree' = SourceTree]_vars

\* C22 witness: a getStats call has parsed the snapshot file and written
\* the disk tier, and the source tree holds a session log next to the
\* snapshot file.
C22_Witness ==
  /\ obs.tier = "source"
  /\ diskCache # None
  /\ statsFile.kind = "valid"
  /\ diskCache[1].mtimeMs = statsFile.mtimeMs
  /\ SourceSize = MaxSourceSize

(* ==================== properties of getSessionDetail =================== *)

\* Positions in the listing of the directories that hold the file of the
\* session asked for.
Holding(f) ==
  {i \in 1..Len(projectDirs) : f.sessionId \in projectDirs[i].sessionIds}

\* Those among them whose decoded path or raw name is the project path
\* asked for.
HoldingInProject(f) ==
  {i \in Holding(f) :
     \/ DecodeProjectDirName(projectDirs[i].dirName) = f.projectPath
     \/ projectDirs[i].dirName = f.projectPath}

\* C24: getSessionDetail takes the file from a directory of the requested
\* project path (decoded or raw name) that holds it, the first in listing
\* order; only when no such directory holds it, from the first directory
\* in listing order that holds it; it fails with 'Session not found'
\* exactly when no directory holds the file or the projects directory
\* cannot be listed.
C24_ProjectPathFirst ==
  found # None =>
    LET f == found[1]
    IN  /\ (f.outcome = "Session not found")
             <=> (~f.listOk \/ Holding(f) = {})
        /\ (f.listOk /\ HoldingInProject(f) # {}) =>
             /\ f.outcome = "parseDetail"
             /\ f.filePath[1].dirName =
                  projectDirs[Min(HoldingInProject(f))].dirName
             /\ f.filePath[1].path =
                  << "projectsDir", f.filePath[1].dirName, f.sessionId >>
        /\ (f.listOk /\ HoldingInProject(f) = {} /\ Holding(f) # {}) =>
             /\ f.outcome = "parseDetail"
             /\ f.filePath[1].dirName = projectDirs[Min(Holding(f))].dirName
             /\ f.filePath[1].path =
                  << "projectsDir", f.filePath[1].dirName, f.sessionId >>

\* C24 witness: the file is held by the first directory of the listing and
\* by a later one, which is the one of the requested project path, and the
\* call took the later one.
C24_Witness ==
  /\ found # None
  /\ found[1].listOk
  /\ 1 \in Holding(found[1])
  /\ 1 \notin HoldingInProject(found[1])
  /\ HoldingInProject(found[1]) # {}
  /\ found[1].outcome = "parseDetail"
  /\ found[1].filePath[1].dirName # projectDirs[1].dirName

(* ================= properties of agents and skills ==================== *)

IsTaskEvent(e) == e.type = "task"

\* The events of a type in the session log that reference the dispatch t
\* and carry an agent id.
Carrying(type, t) ==
  {i \in 1..Len(parentLog) : /\ parentLog[i].type = type
                             /\ parentLog[i].toolUseId = t
                             /\ parentLog[i].agentId # None}

\* C25: parseDetail emits one Agent record per Task dispatch, in order.
\* Its agent id is the one carried by a progress event that references the
\* dispatch whenever there is such an event in the session, wherever it
\* stands relative to the tool results; the id in the text of a tool
\* result is taken only when there is no such progress event; with
\* neither, the record is emitted with no agent id.
C25_ProgressIdWins ==
  detail # None =>
    LET agents == detail[1].agents
        tasks == SelectSeq(parentLog, IsTaskEvent)
    IN  /\ Len(agents) = Len(tasks)
        /\ \A k \in 1..Len(agents) :
             LET t == tasks[k].toolUseId
             IN  /\ agents[k].toolUseId = t
                 /\ Carrying("progress", t) # {} =>
                      \E i \in Carrying("progress", t) :
                        agents[k].agentId = parentLog[i].agentId
                 /\ (Carrying("progress", t) = {}
                       /\ Carrying("result", t) # {}) =>
                      \E i \in Carrying("result", t) :
                        agents[k].agentId = parentLog[i].agentId
                 /\ (Carrying("progress", t) = {}
                       /\ Carrying("result", t) = {}) =>
                      agents[k].agentId = None

\* C25 witness: the tool result of a dispatch, with an agent id in its
\* text, stands before a progress event of that dispatch, and the Agent
\* record has the id of the progress event.
C25_Witness ==
  /\ detail # None
  /\ \E k \in 1..Len(detail[1].agents) :
       LET t == detail[1].agents[k].toolUseId
       IN  /\ \E i \in Carrying("result", t) : \E j \in Carrying("progress", t) :
                i < j
           /\ detail[1].agents[k].agentId = Some(ForegroundId(t))

\* C29: the skills field of an Agent record is absent exactly when the
\* agent id is not resolved or no linked log exists for it; when the
\* linked log exists, empty or without skills as it may be, the field is a
\* list.
C29_SkillsAbsentOrList ==
  detail # None =>
    \A k \in 1..Len(detail[1].agents) :
      LET a == detail[1].agents[k]
      IN  (a.skills = None)
            <=> (a.agentId = None \/ a.agentId[1] \notin DOMAIN agentLogs)

\* C29 witness: two agents with resolved ids, one whose linked log exists
\* and is empty, with an empty list of skills, and one whose linked log
\* does not exist, with no skills field.
C29_Witness ==
  /\ detail # None
  /\ \E k, l \in 1..Len(detail[1].agents) :
       /\ detail[1].agents[k].agentId # None
       /\ detail[1].agents[k].agentId[1] \in DOMAIN agentLogs
       /\ agentLogs[detail[1].agents[k].agentId[1]] = << >>
       /\ detail[1].agents[k].skills = Some(<< >>)
       /\ detail[1].agents[l].agentId # None
       /\ detail[1].agents[l].skills = None

\* The agents of the detail whose linked log was read.
Linked == {k \in 1..Len(detail[1].agents) : detail[1].agents[k].skills # None}

SkillsOf(k) == detail[1].agents[k].skills[1]

LinesOf(k) == agentLogs[detail[1].agents[k].agentId[1]]

\* The position of the entry i of a log among its messages: lines that
\* are not JSON are no messages.
RECURSIVE PositionOf(_, _)
PositionOf(lines, i) ==
  IF i = 0 THEN 0
  ELSE PositionOf(lines, i - 1)
         + (IF lines[i].kind = "malformed" THEN 0 ELSE lines[i].count)

MarkersInWindow(lines) ==
  {i \in 1..Len(lines) : lines[i].kind = "marker" /\ PositionOf(lines, i) <= 20}

MarkersAfterWindow(lines) ==
  {i \in 1..Len(lines) : lines[i].kind = "marker" /\ PositionOf(lines, i) >= 21}

NamedSkillCalls(lines) ==
  {i \in 1..Len(lines) :
     lines[i].kind = "skill" /\ lines[i].input /\ lines[i].skill # None}

NamelessSkillCalls(lines) ==
  {i \in 1..Len(lines) :
     lines[i].kind = "skill" /\ ~(lines[i].input /\ lines[i].skill # None)}

From(skills, source) ==
  {p \in 1..Len(skills) : skills[p].source = source}

\* C26: a user message with a skill name marker at position 21 or later of
\* a sub-agent log yields no SkillInvocation; each marker within the first
\* 20 messages yields one, with source 'injected', a null argument and a
\* tool-call id made of 'injected' and the skill name.
C26_InjectedWindow ==
  detail # None =>
    \A k \in Linked :
      LET skills == SkillsOf(k)
          lines == LinesOf(k)
      IN  /\ Cardinality(From(skills, "injected"))
               = Cardinality(MarkersInWindow(lines))
          /\ \A i \in MarkersInWindow(lines) :
               \E p \in From(skills, "injected") :
                 /\ skills[p].timestamp = lines[i].timestamp
                 /\ skills[p].skill = lines[i].skill[1]
                 /\ skills[p].args = None
                 /\ skills[p].toolUseId = << "injected", lines[i].skill[1] >>
          /\ \A i \in MarkersAfterWindow(lines) :
               \A p \in 1..Len(skills) :
                 skills[p].timestamp # lines[i].timestamp

\* C26 witness: a sub-agent log with a marker as its 20th message and one
\* as its 21st, of which the first only gave a skill.
C26_Witness ==
  /\ detail # None
  /\ \E k \in Linked :
       /\ \E i \in MarkersInWindow(LinesOf(k)) : PositionOf(LinesOf(k), i) = 20
       /\ \E i \in MarkersAfterWindow(LinesOf(k)) :
            PositionOf(LinesOf(k), i) = 21
       /\ Len(SkillsOf(k)) = 1

\* C27: a Skill tool_use of a sub-agent log yields a SkillInvocation, with
\* source 'invoked', its own tool-call id and the argument of its input or
\* null, exactly when it has an input with a skill name; a Skill tool_use
\* without input or without skill name yields none, and the skills of the
\* agent are then a list, empty when nothing else was found.
C27_LegacySkillNeedsName ==
  detail # None =>
    \A k \in Linked :
      LET skills == SkillsOf(k)
          lines == LinesOf(k)
      IN  /\ Cardinality(From(skills, "invoked"))
               = Cardinality(NamedSkillCalls(lines))
          /\ \A i \in NamedSkillCalls(lines) :
               \E p \in From(skills, "invoked") :
                 /\ skills[p].timestamp = lines[i].timestamp
                 /\ skills[p].skill = lines[i].skill[1]
                 /\ skills[p].args = lines[i].args
                 /\ skills[p].toolUseId = << "tool", lines[i].toolUseId >>
          /\ \A i \in NamelessSkillCalls(lines) :
               \A p \in 1..Len(skills) :
                 skills[p].timestamp # lines[i].timestamp
          /\ (\A i \in 1..Len(lines) : i \in NamelessSkillCalls(lines)) =>
               skills = << >>

\* C27 witness: a sub-agent log made of a Skill tool_use without input and
\* one with an input that lacks the skill name: the list of skills is
\* empty.
C27_Witness ==
  /\ detail # None
  /\ \E k \in Linked :
       /\ Len(LinesOf(k)) = 2
       /\ \A i \in 1..2 : i \in NamelessSkillCalls(LinesOf(k))
       /\ \E i \in 1..2 : LinesOf(k)[i].input
       /\ \E i \in 1..2 : ~LinesOf(k)[i].input
       /\ SkillsOf(k) = << >>

\* C28: the skills of an agent are all the injected and all the invoked
\* skills of its log, every injected one before every invoked one, and
\* each group in the order of the log, wherever the Skill tool_use blocks
\* stand relative to the markers.
C28_InjectedBeforeInvoked ==
  detail # None =>
    \A k \in Linked :
      LET skills == SkillsOf(k)
          lines == LinesOf(k)
      IN  /\ Len(skills) = Cardinality(MarkersInWindow(lines))
                             + Cardinality(NamedSkillCalls(lines))
          /\ \A p, q \in 1..Len(skills) :
               p < q =>
                 /\ ~(skills[p].source = "invoked"
                        /\ skills[q].source = "injected")
                 /\ skills[p].source = skills[q].source =>
                      skills[p].timestamp < skills[q].timestamp

\* C28 witness: a Skill tool_use stands before two markers in the log, and
\* the skills are the two injected ones, in their order, then the invoked
\* one.
C28_Witness ==
  /\ detail # None
  /\ \E k \in Linked :
       /\ Len(SkillsOf(k)) = 3
       /\ SkillsOf(k)[1].source = "injected"
       /\ SkillsOf(k)[2].source = "injected"
       /\ SkillsOf(k)[3].source = "invoked"
       /\ SkillsOf(k)[3].timestamp < SkillsOf(k)[1].timestamp
       /\ SkillsOf(k)[1].timestamp < SkillsOf(k)[2].timestamp

IsJsonEvent(e) == e.type # "malformed"

IsJsonLine(line) == line.kind # "malformed"

\* C30: a malformed line of a session log or of a sub-agent log is skipped
\* and the parse goes on: what parseDetail gives is what it gives for the
\* same logs with the malformed lines removed.
C30_MalformedLinesSkipped ==
  detail # None =>
    detail[1] =
      ParseDetail(SelectSeq(parentLog, IsJsonEvent),
                  [id \in DOMAIN agentLogs |->
                     SelectSeq(agentLogs[id], IsJsonLine)])

\* C30 witness: a sub-agent log with a malformed line among its first 20
\* lines and a marker as its 21st line, the 20th message, which gave a
\* skill.
C30_Witness ==
  /\ detail # None
  /\ \E k \in Linked :
       /\ \E i \in 1..Len(LinesOf(k)) : LinesOf(k)[i].kind = "malformed"
       /\ \E i \in MarkersInWindow(LinesOf(k)) :
            /\ PositionOf(LinesOf(k), i) = 20
            /\ \E j \in 1..(i - 1) : LinesOf(k)[j].kind = "malformed"
       /\ Len(SkillsOf(k)) = 1

(* ================== properties of the stats engine, II ================ *)

\* C31: when there is no snapshot file, the aggregate computed from scratch
\* is reused for 60 seconds: a getStats call made less than 60 seconds
\* after a call that computed the aggregate, the snapshot file still
\* missing, neither scans the sessions nor parses a session detail.
C31_ComputedAggregateReused ==
  [][(/\ GetStatsStep
      /\ statsFile.kind = "missing"
      /\ lastComputed # None
      /\ now - lastComputed[1] < MERGE_STALENESS_MS)
       => (~obs'.scanned /\ obs'.parsed = {})]_vars

(* ================== properties of interleaved scans =================== *)

\* C32: an entry of the summary cache is replaced only by fresher data:
\* whatever way scans running at once and writes of the files interleave,
\* no step replaces the entry of a session id by one with an older
\* modification time.
C32_CacheReplacedByFresher ==
  [][\A id \in DOMAIN summaryCache :
       id \in DOMAIN summaryCache' =>
         summaryCache'[id].mtimeMs >= summaryCache[id].mtimeMs]_vars

\* C36: every record a scan returns was derived from the file it is
\* reported for: its project path and project name are those of the
\* project directory in which the file was enumerated, also when two
\* project directories hold a file of the same session id, with equal
\* modification times or not.
C36_RecordOfItsFile ==
  pushed # None =>
    LET decoded == DecodeProjectDirName(pushed[1].dirName)
    IN  /\ pushed[1].record.summary.projectPath = decoded
        /\ pushed[1].record.summary.projectName = ExtractProjectName(decoded)

(* ================== properties of the stats engine, III =============== *)

DailySum(stats, field) ==
  SumValues([i \in 1..Len(stats.dailyActivity) |->
               stats.dailyActivity[i][field]])

\* C33: the aggregate of a full computation has totalSessions equal to the
\* number of scanned summaries, totalMessages equal to the sum of the
\* per-day message counts, per-day session counts that sum to
\* totalSessions, firstSessionDate equal to the smallest startedAt (to the
\* current time when there is no session) and lastComputedDate equal to
\* the current time.
C33_FullComputationTotals ==
  obs.path = "computed" =>
    LET res == result[1]
    IN  /\ res.totalSessions = Cardinality(DOMAIN sessions)
        /\ res.totalMessages = DailySum(res, "messageCount")
        /\ DailySum(res, "sessionCount") = res.totalSessions
        /\ res.firstSessionDate =
             IF DOMAIN sessions = {} THEN now
             ELSE Min({sessions[id].startedAt : id \in DOMAIN sessions})
        /\ res.lastComputedDate = now

\* C33 witness: a full computation over two sessions started on different
\* days, one of which cannot be parsed in full.
C33_Witness ==
  /\ obs.path = "computed"
  /\ \E i, j \in DOMAIN sessions :
       /\ sessions[i].startedAt < sessions[j].startedAt
       /\ sessions[i].detail = None \/ sessions[j].detail = None
  /\ Len(result[1].dailyActivity) = 2

DatesOf(daily) == {daily[i].date : i \in 1..Len(daily)}

\* C37: enrichment keeps the totals and the per-day entries consistent:
\* totalSessions grows over the snapshot by as much as the session counts
\* of all dailyActivity entries together, totalMessages by as much as
\* their message counts together, and the date of every delta session has
\* an entry in dailyActivity and in dailyModelTokens.
C37_TotalsMatchDailyEntries ==
  obs.path = "enriched" =>
    LET snap == cachedStats[1].data
        res == result[1]
    IN  /\ res.totalSessions - snap.totalSessions =
             DailySum(res, "sessionCount") - DailySum(snap, "sessionCount")
        /\ res.totalMessages - snap.totalMessages =
             DailySum(res, "messageCount") - DailySum(snap, "messageCount")
        /\ \A id \in DeltaOf(snap) :
             /\ DateOfSession(sessions[id]) \in DatesOf(res.dailyActivity)
             /\ DateOfSession(sessions[id]) \in DatesOf(res.dailyModelTokens)

\* C37 witness: an enrichment whose delta has two sessions, among them one
\* that cannot be parsed in full and is alone on its date, a date the
\* snapshot has no entry for.
C37_Witness ==
  /\ obs.path = "enriched"
  /\ Cardinality(DeltaOf(cachedStats[1].data)) = 2
  /\ \E id \in DeltaOf(cachedStats[1].data) :
       /\ sessions[id].detail = None
       /\ DateOfSession(sessions[id])
            \notin DatesOf(cachedStats[1].data.dailyActivity)
       /\ \A other \in DeltaOf(cachedStats[1].data) \ {id} :
            DateOfSession(sessions[other]) # DateOfSession(sessions[id])

\* C35: enrichment does not change the snapshot the memory tier holds, so
\* getStats is stable: while the snapshot file and the session logs stay
\* as they are, an enrichment made after the 60 seconds of the merge cache
\* have passed gives what the enrichment before it gave, no counter having
\* grown.
C35_ReEnrichmentStable ==
  [][GetStatsStep =>
       /\ obs'.tier = "memory" => cachedStats' = cachedStats
       /\ (/\ obs'.path = "enriched"
           /\ lastEnrichment # None
           /\ lastEnrichment[1].mtimeMs = statsFile.mtimeMs
           /\ lastEnrichment[1].sessions = sessions)
            => result' = Some(lastEnrichment[1].data)]_vars

\* C35 witness: a second enrichment of the same snapshot over the same
\* session logs, one of them in the delta, made from the memory tier.
C35_Witness ==
  /\ obs.path = "enriched"
  /\ obs.tier = "memory"
  /\ lastEnrichment[1].again
  /\ DeltaOf(Snapshot(cachedStats)) # {}
  /\ result[1].totalSessions = Snapshot(cachedStats).totalSessions + 1

\* C39: a failed enrichment leaves the merge cache as it was, no entry
\* being stored for the attempt: the merge cache only ever holds the last
\* completed enrichment, and the getStats call that follows a failed one
\* on the snapshot still stale scans again to enrich instead of returning
\* the unenriched snapshot from the merge cache.
C39_FailedEnrichmentNotCached ==
  [][GetStatsStep =>
       /\ obs'.path = "enrichFailed" =>
            /\ mergedCache' = mergedCache
            /\ ~obs'.mergeWrite
       /\ mergedCache' # None =>
            /\ lastEnrichment' # None
            /\ mergedCache'[1].data = lastEnrichment'[1].data
            /\ mergedCache'[1].mergedAt = lastEnrichment'[1].at
       /\ obs.path = "enrichFailed" =>
            /\ obs'.path \in {"enriched", "enrichFailed"}
            /\ obs'.scanned]_vars

\* C39 witness: an enrichment has failed while the merge cache held the
\* result of an enrichment made 60 seconds before, which it still holds.
C39_Witness ==
  /\ obs.path = "enrichFailed"
  /\ DeltaOf(Snapshot(cachedStats)) # {}
  /\ mergedCache # None
  /\ now - mergedCache[1].mergedAt = MERGE_STALENESS_MS
  /\ mergedCache[1].data # Snapshot(cachedStats)

(* ================= properties of concurrent requests ================== *)

\* C34: every getStats call returns in the end, provided every parse in
\* flight settles and every continuation runs: the batched parsing goes
\* through all its batches, and no request waits for another request or
\* for a cache, whatever the other requests do and whatever parses fail.
C34_EveryRequestReturns ==
  \A r \in Requests :
    (req[r].phase = "parsing") ~> (req[r].phase = "answered")

\* C34 witness: a call over more sessions than one batch holds has been
\* answered, a parse of it having failed, while another call is still
\* waiting for its first parse to settle.
C34_Witness ==
  \E r, other \in Requests :
    /\ req[r].phase = "answered"
    /\ req[r].n > BatchSize
    /\ req[r].failed # {}
    /\ req[other].phase = "parsing"
    /\ req[other].ok \cup req[other].failed = {}

(* ================= properties of path resolution ====================== *)

\* The project directories directly under the projects root.
ProjectDirPaths ==
  {ProjectsDir \o << projectDirs[i].dirName >> : i \in 1..Len(projectDirs)}

\* C40: whatever session id and project path getSessionDetail is given,
\* the file it resolves and hands to parseDetail lies inside one of the
\* project directories directly under the projects root.
C40_ResolvedInsideProjects ==
  (found # None /\ found[1].outcome = "parseDetail") =>
    LET filePath == found[1].filePath[1].path
    IN  /\ Len(filePath) > Len(ProjectsDir) + 1
        /\ SubSeq(filePath, 1, Len(ProjectsDir) + 1) \in ProjectDirPaths

====
